---- MODULE Spec2Model ----
(***************************************************************************)
(* Model of the ssh client pool of mytunnel/dial (tunnel_pool.go) and of   *)
(* the multiplexed DialContext built on it.                                *)
(*                                                                         *)
(* Goroutines are the processes 1..NProcs.  Every statement that touches   *)
(* shared state is a step of its own; a critical section of the pool mutex *)
(* is two steps, the Lock and the body up to the Unlock, so the mutex is   *)
(* visibly held between them.  A pool entry, the sshPooledTunnel it owns   *)
(* and the sshClient inside that tunnel are created together by one        *)
(* constructor call and share one identifier (1..MaxEntries); 0 is nil.    *)
(*                                                                         *)
(* A caller's context can be cancelled at any moment, and every call that  *)
(* observes the cancellation returns at once, so the context has no state  *)
(* of its own: a step that waits on ctx.Done() may always take that case.  *)
(***************************************************************************)
EXTENDS Integers, FiniteSets, Sequences, TLC

\* ------------------------------------------------------------------ bounds
NProcs == 2      \* goroutines
MaxEntries == 2  \* pool entries (constructor invocations) in one behaviour
MaxDials == 2    \* calls of DialContext in one behaviour
MaxCountMax == 2 \* largest ServerAliveCountMax parameter given
MaxTimeout == 1  \* largest ServerAliveTimeout parameter given, in seconds
MaxLagMax == 1   \* largest ServerAliveLagMax parameter given, in seconds
MaxTicks == 2    \* largest interval and timeout of the timed loop, in units of 5ms
MaxStall == 3    \* longest SendRequest of the timed loop, in units of 5ms
MaxLatency == 1  \* longest delay of a runnable goroutine, in units of 5ms
MaxTuns == 2     \* sshTunnel objects created through the singleflight cache

Procs == 1..NProcs
Ents == 1..MaxEntries
Tuns == 1..MaxTuns
Nil == 0

\* The pool keys.  Entries under different keys share nothing but the mutex,
\* so the model follows the callers of one key.
Keys == {"user@host:22"}
NoKey == "-"

VARIABLES
    mu,         \* sshClientPool.mu: the goroutine holding it, or Nil
    m,          \* sshClientPool.m: key -> entry, Nil when the key is absent
    entries,    \* the clientPoolEntry objects allocated so far
    nEnt,       \* number of entries allocated
    closeCount, \* per sshClient: how many times Close was called on it
    pc,         \* per goroutine: position in the pool code
    key,        \* per goroutine: the key argument of acquire
    ent,        \* per goroutine: the local e of acquire / wait
    value,      \* per goroutine: tunnel returned by acquire, argument of release / forget
    err,        \* per goroutine: error result of the call in progress
    last,       \* per goroutine: result of tryRelease
    evictedBy,  \* per entry: which operation deleted it from the map
    forgot,     \* per tunnel: a forget call on it has returned
    batch,      \* "open": no acquire call returned yet; "returning": some returned and
                \* none started since; "broken": a call started after another returned
    retVals,    \* the tunnels returned by acquire calls while batch is not "broken"
    attempt,    \* per goroutine: the iteration of DialContext's loop it is in, 0 outside
    tried,      \* per goroutine: the tunnel and the outcome of each sub-dial of its DialContext
    result,     \* per goroutine: lastErr inside DialContext's loop, then the error it returns:
                \* an error is the chain of its messages, outermost first; <<>> is nil
    nDials,     \* number of DialContext calls made
    once,       \* per goroutine: closeOnce of the tunnelConn its DialContext returned:
                \* "none" (no connection), "new", "running" or "done"
    closeErr,   \* per goroutine: closeErr of that tunnelConn
    relCalls,   \* per goroutine: how many times that tunnelConn's Close has called release
    reclosed,   \* per goroutine: a Close call was made on that tunnelConn after the first one
    target,     \* per goroutine: the owner of the tunnelConn whose Close it is in, or Nil
    err1,       \* per goroutine: err1 of the Close call it is in
    kaOnce,     \* per tunnel: sshPooledTunnel.keepAliveOnce has fired
    engines,    \* per tunnel: keepAliveLoop goroutines started on its client
    kaExited,   \* per tunnel: a keepAliveLoop on its client has closed the client and returned
    loop,       \* keepAliveLoop of one client: its position
    config,     \* its keepAliveConfig
    serverAliveCounter, \* its local of that name
    hadTimeout, \* its local of that name
    flight,     \* the goroutine of keepAliveSingleFlight: its position
    flightErr,  \* the error that goroutine is sending on resp
    waitDone,   \* the channel waitDone is closed: cli.Wait() has returned
    loopCloses, \* calls of cli.Close() made by keepAliveLoop
    took,       \* `took` of the last handleTimeout of the current probe, 0 if none
    misses,     \* probes in a row that ended with errKeepAliveTimeout
    allAcked,   \* no SendRequest has returned an error and no probe timer has fired
    acked,      \* some probe has ended with the server's acknowledgement
    inFlight,   \* calls of client.SendRequest that have not returned
    readCh,     \* netConn.readCh, the channel of successfulRead(), holds a signal
    tickSig,    \* readCh held a signal when the last tick was taken
    fresh,      \* ticker.Reset was called after the last tick was taken
    interval,   \* timed loop: config.serverAliveInterval
    stall,      \* timed loop: how long the server takes to acknowledge a request
    tickIn,     \* timed loop: time until the ticker fires next
    tickBuf,    \* timed loop: a tick is waiting in ticker.C
    timerIn,    \* timed loop: time until the probe's timer fires, 0 fired, -1 no timer
    replyIn,    \* timed loop: time until SendRequest returns, -1 when none is running
    since,      \* timed loop: time.Since(start) of the probe
    lat,        \* timed loop: for how long a runnable goroutine has not run
    delayed,    \* timed loop: some goroutine ran later than it became runnable
    sdCall,     \* per goroutine: its call of sshDialCtx: "off", "select" or "ret"
    sdGo,       \* per goroutine: the goroutine started by that call: "off",
                \* "handshake", "select" or "end"
    ctxDone,    \* per goroutine: the ctx of that call is cancelled
    withConn,   \* per goroutine: the call dials the connection itself and wraps it
                \* in a netConn (part_005) or leaves the dial to the goroutine (dial.go)
    clientRes,  \* per goroutine: what sshNewClient / sshDial returned: "none", "client", "err"
    sdRet,      \* per goroutine: what sshDialCtx returned: "none", "client", "err", "ctxErr"
    clientCloses, \* per goroutine: calls of client.Close() made by the started goroutine
    nConnCloses, \* per goroutine: calls of nConn.Close() made by sshDialCtx
    cache,      \* tunnelCache.cache under the one key: an sshTunnel, or Nil
    tuns,       \* per sshTunnel: users, closed, and the calls of sshClient.Close() on it
    nTun,       \* sshTunnel objects created so far
    tpc,        \* per goroutine: its position in DialContext over the tunnel cache
    ttun,       \* per goroutine: its local tun / sshTun
    sf,         \* the call in flight of tunnelCache.group: "none", or its position
    sfTun,      \* the tunnel that call has created
    crits       \* the crit... assertions of debug.go that have fired

vars == <<mu, m, entries, nEnt, closeCount, pc, key, ent, value, err, last,
          evictedBy, forgot, batch, retVals, attempt, tried, result, nDials,
          once, closeErr, relCalls, reclosed, target, err1,
          kaOnce, engines, kaExited,
          loop, config, serverAliveCounter, hadTimeout, flight, flightErr,
          waitDone, loopCloses, took, misses, allAcked, acked, inFlight,
          readCh, tickSig, fresh,
          interval, stall, tickIn, tickBuf, timerIn, replyIn, since, lat, delayed,
          sdCall, sdGo, ctxDone, withConn, clientRes, sdRet, clientCloses, nConnCloses,
          cache, tuns, nTun, tpc, ttun, sf, sfTun, crits>>

poolVars == <<mu, m, entries, nEnt, closeCount>>
procVars == <<pc, key, ent, value, err, last>>
histVars == <<evictedBy, forgot, batch, retVals>>
dialVars == <<attempt, tried, result, nDials>>
connVars == <<once, closeErr, relCalls, reclosed, target, err1>>
loopVars == <<loop, config, serverAliveCounter, hadTimeout, flight, flightErr,
              waitDone, loopCloses, took, misses, allAcked, acked, inFlight,
              readCh, tickSig, fresh>>
timeVars == <<interval, stall, tickIn, tickBuf, timerIn, replyIn, since, lat, delayed>>
sdVars == <<sdCall, sdGo, ctxDone, withConn, clientRes, sdRet, clientCloses, nConnCloses>>
cacheVars == <<cache, tuns, nTun, tpc, ttun, sf, sfTun, crits>>
keepVars == <<kaOnce, engines, kaExited, loopVars, timeVars, sdVars, cacheVars>>

\* clientPoolEntry{done: make(chan struct{})}
NewEntry(k) == [key |-> k, done |-> FALSE, val |-> Nil, refCount |-> 0, removed |-> FALSE]

NoEntry == [key |-> NoKey, done |-> FALSE, val |-> Nil, refCount |-> 0, removed |-> FALSE]

Init ==
    /\ mu = Nil
    /\ m = [k \in Keys |-> Nil]
    /\ entries = [e \in Ents |-> NoEntry]
    /\ nEnt = 0
    /\ closeCount = [e \in Ents |-> 0]
    /\ pc = [p \in Procs |-> "idle"]
    /\ key = [p \in Procs |-> NoKey]
    /\ ent = [p \in Procs |-> Nil]
    /\ value = [p \in Procs |-> Nil]
    /\ err = [p \in Procs |-> "nil"]
    /\ last = [p \in Procs |-> FALSE]
    /\ evictedBy = [e \in Ents |-> "none"]
    /\ forgot = [e \in Ents |-> FALSE]
    /\ batch = "open"
    /\ retVals = {}
    /\ attempt = [p \in Procs |-> 0]
    /\ tried = [p \in Procs |-> <<>>]
    /\ result = [p \in Procs |-> <<>>]
    /\ nDials = 0
    /\ once = [p \in Procs |-> "none"]
    /\ closeErr = [p \in Procs |-> "nil"]
    /\ relCalls = [p \in Procs |-> 0]
    /\ reclosed = [p \in Procs |-> FALSE]
    /\ target = [p \in Procs |-> Nil]
    /\ err1 = [p \in Procs |-> "nil"]
    /\ kaOnce = [e \in Ents |-> FALSE]
    /\ engines = [e \in Ents |-> 0]
    /\ kaExited = [e \in Ents |-> FALSE]
    /\ loop = "off"
    /\ config = [countMax |-> 0, timeout |-> 0, lag |-> 0]
    /\ serverAliveCounter = 0
    /\ hadTimeout = FALSE
    /\ flight = "idle"
    /\ flightErr = "nil"
    /\ waitDone = FALSE
    /\ loopCloses = 0
    /\ took = 0
    /\ misses = 0
    /\ allAcked = TRUE
    /\ acked = FALSE
    /\ inFlight = 0
    /\ readCh = FALSE
    /\ tickSig = FALSE
    /\ fresh = FALSE
    /\ interval = 0
    /\ stall = 0
    /\ tickIn = 0
    /\ tickBuf = FALSE
    /\ timerIn = -1
    /\ replyIn = -1
    /\ since = 0
    /\ lat = 0
    /\ delayed = FALSE
    /\ sdCall = [p \in Procs |-> "off"]
    /\ sdGo = [p \in Procs |-> "off"]
    /\ ctxDone = [p \in Procs |-> FALSE]
    /\ withConn = [p \in Procs |-> FALSE]
    /\ clientRes = [p \in Procs |-> "none"]
    /\ sdRet = [p \in Procs |-> "none"]
    /\ clientCloses = [p \in Procs |-> 0]
    /\ nConnCloses = [p \in Procs |-> 0]
    /\ cache = Nil
    /\ tuns = [t \in Tuns |-> [users |-> 0, closed |-> FALSE, closes |-> 0]]
    /\ nTun = 0
    /\ tpc = [p \in Procs |-> "idle"]
    /\ ttun = [p \in Procs |-> Nil]
    /\ sf = "none"
    /\ sfTun = Nil
    /\ crits = {}

\* ---------------------------------------------------------------- helpers
Set(f, x, v) == [f EXCEPT ![x] = v]

\* sshPooledTunnel.key of tunnel v: the key it was constructed under
TunnelKey(v) == entries[v].key

\* the bookkeeping of a call to acquire returning to its caller
Returned(v) ==
    /\ batch' = IF batch = "open" THEN "returning" ELSE batch
    /\ retVals' = IF v = Nil \/ batch = "broken" THEN retVals ELSE retVals \cup {v}

\* ------------------------------------------------- sshClientPool.acquire
\* line 37: p.mu.Lock() at the top of the for loop
acquire_Lock(p) ==
    /\ pc[p] = "acq_lock"
    /\ mu = Nil
    /\ mu' = p
    /\ pc' = Set(pc, p, "acq_lookup")
    /\ UNCHANGED <<m, entries, nEnt, closeCount, key, ent, value, err, last>>
    /\ UNCHANGED histVars

\* a lookup that never finds the entry
HasNever(k) == FALSE

\* line 38: `e, has := p.m[key]`
Has(k) == m[k] # Nil

\* lines 38-41: the key has an entry: unlock and enter e.wait
acquire_Found(p) ==
    /\ pc[p] = "acq_lookup"
    /\ Has(key[p])
    /\ mu' = Nil
    /\ pc' = Set(pc, p, "wait")
    /\ ent' = Set(ent, p, m[key[p]])
    /\ UNCHANGED <<err, batch, retVals>>
    /\ UNCHANGED <<m, entries, nEnt, closeCount, key, value, last>>
    /\ UNCHANGED <<evictedBy, forgot>>

\* the fresh entry created but not stored in the map
acquire_PublishUnstored(p) ==
    /\ pc[p] = "acq_lookup"
    /\ ~Has(key[p])
    /\ nEnt < MaxEntries
    /\ nEnt' = nEnt + 1
    /\ entries' = Set(entries, nEnt + 1, NewEntry(key[p]))
    /\ ent' = Set(ent, p, nEnt + 1)
    /\ mu' = Nil
    /\ pc' = Set(pc, p, "ctor")
    /\ UNCHANGED <<m, closeCount, key, value, err, last>>
    /\ UNCHANGED histVars

\* an acquire that keeps the lock while it calls ctor
acquire_PublishLocked(p) ==
    /\ pc[p] = "acq_lookup"
    /\ ~Has(key[p])
    /\ nEnt < MaxEntries
    /\ nEnt' = nEnt + 1
    /\ entries' = Set(entries, nEnt + 1, NewEntry(key[p]))
    /\ m' = Set(m, key[p], nEnt + 1)
    /\ ent' = Set(ent, p, nEnt + 1)
    /\ pc' = Set(pc, p, "ctor")
    /\ UNCHANGED <<mu, closeCount, key, value, err, last>>
    /\ UNCHANGED histVars

\* lines 51-57: no entry: publish a fresh one under the lock, unlock, call ctor
acquire_Publish(p) ==
    /\ pc[p] = "acq_lookup"
    /\ ~Has(key[p])
    /\ nEnt < MaxEntries
    /\ nEnt' = nEnt + 1
    /\ entries' = Set(entries, nEnt + 1, NewEntry(key[p]))
    /\ m' = Set(m, key[p], nEnt + 1)
    /\ ent' = Set(ent, p, nEnt + 1)
    /\ mu' = Nil
    /\ pc' = Set(pc, p, "ctor")
    /\ UNCHANGED <<closeCount, key, value, err, last>>
    /\ UNCHANGED histVars

\* line 57: `client, err := ctor(ctx)` returns a new client or an error
acquire_Ctor(p) ==
    /\ pc[p] = "ctor"
    /\ \E ok \in BOOLEAN :
         err' = Set(err, p, IF ok THEN "nil" ELSE "ctorErr")
    /\ pc' = Set(pc, p, "post_ctor")
    /\ UNCHANGED poolVars
    /\ UNCHANGED <<key, ent, value, last>>
    /\ UNCHANGED histVars

\* the constructor's record of success without its own reference
ctorNoRefCount(e) == [entries[e] EXCEPT !.val = e]

\* lines 66-71: `e.val = &sshPooledTunnel{...}; e.refCount++`
ctorRefCount(e) == [entries[e] EXCEPT !.val = e, !.refCount = @ + 1]

\* lines 64-71: success: record the tunnel and the first reference (no lock held)
acquire_SetVal(p) ==
    /\ pc[p] = "post_ctor"
    /\ err[p] = "nil"
    /\ entries' = Set(entries, ent[p], ctorRefCount(ent[p]))
    /\ pc' = Set(pc, p, "close_done")
    /\ UNCHANGED <<mu, m, nEnt, closeCount>>
    /\ UNCHANGED <<key, ent, value, err, last>>
    /\ UNCHANGED histVars

\* line 75: failure: e.removed = true (no lock held)
acquire_SetRemoved(p) ==
    /\ pc[p] = "post_ctor"
    /\ err[p] # "nil"
    /\ entries' = Set(entries, ent[p], [entries[ent[p]] EXCEPT !.removed = TRUE])
    /\ pc' = Set(pc, p, "del_lock")
    /\ UNCHANGED <<mu, m, nEnt, closeCount>>
    /\ UNCHANGED <<key, ent, value, err, last>>
    /\ UNCHANGED histVars

\* line 76: p.mu.Lock()
acquire_DeleteLock(p) ==
    /\ pc[p] = "del_lock"
    /\ mu = Nil
    /\ mu' = p
    /\ pc' = Set(pc, p, "del_body")
    /\ UNCHANGED <<m, entries, nEnt, closeCount, key, ent, value, err, last>>
    /\ UNCHANGED histVars

\* lines 77-78: delete(p.m, key); p.mu.Unlock()
acquire_Delete(p) ==
    /\ pc[p] = "del_body"
    /\ m' = Set(m, key[p], Nil)
    /\ mu' = Nil
    /\ evictedBy' = Set(evictedBy, ent[p], "ctor")
    /\ pc' = Set(pc, p, "close_done")
    /\ UNCHANGED <<entries, nEnt, closeCount, key, ent, value, err, last>>
    /\ UNCHANGED <<forgot, batch, retVals>>

\* line 83: close(e.done)
acquire_CloseDone(p) ==
    /\ pc[p] = "close_done"
    /\ entries' = Set(entries, ent[p], [entries[ent[p]] EXCEPT !.done = TRUE])
    /\ pc' = Set(pc, p, "acq_return")
    /\ UNCHANGED <<mu, m, nEnt, closeCount>>
    /\ UNCHANGED <<key, ent, value, err, last>>
    /\ UNCHANGED histVars

\* line 86: `return e.val, err`
acquire_Return(p) ==
    /\ pc[p] = "acq_return"
    /\ value' = Set(value, p, entries[ent[p]].val)
    /\ ent' = Set(ent, p, Nil)
    /\ pc' = Set(pc, p, "acq_ret")
    /\ Returned(entries[ent[p]].val)
    /\ UNCHANGED poolVars
    /\ UNCHANGED <<key, err, last>>
    /\ UNCHANGED <<evictedBy, forgot>>

\* -------------------------------------------------- clientPoolEntry.wait
\* a wait that looks at its context only once the constructor is done
CancelSeenAfterDone(e) == entries[e].done

\* lines 91 and 95: `ctx.Err()` is looked at on entry and `<-ctx.Done()` is a
\* case of the select: a cancellation is seen whatever the state of e.done
CancelSeen(e) == TRUE

\* lines 91-96: the context is cancelled, before wait or while it is suspended:
\* `return nil, ctx.Err(), false`
wait_Cancelled(p) ==
    /\ pc[p] = "wait"
    /\ CancelSeen(ent[p])
    /\ pc' = Set(pc, p, "acq_ret")
    /\ err' = Set(err, p, "ctxErr")
    /\ ent' = Set(ent, p, Nil)
    /\ Returned(Nil)
    /\ UNCHANGED poolVars
    /\ UNCHANGED <<key, value, last>>
    /\ UNCHANGED <<evictedBy, forgot>>

\* line 97: `case <-e.done:`
wait_Done(p) ==
    /\ pc[p] = "wait"
    /\ entries[ent[p]].done
    /\ pc' = Set(pc, p, "wait_lock")
    /\ UNCHANGED poolVars
    /\ UNCHANGED <<key, ent, value, err, last>>
    /\ UNCHANGED histVars

\* a wait that goes on without the lock
wait_LockSkipped(p) ==
    /\ pc[p] = "wait_lock"
    /\ pc' = Set(pc, p, "wait_body")
    /\ UNCHANGED <<mu, m, entries, nEnt, closeCount, key, ent, value, err, last>>
    /\ UNCHANGED histVars

\* line 98: mu.Lock()
wait_Lock(p) ==
    /\ pc[p] = "wait_lock"
    /\ mu = Nil
    /\ mu' = p
    /\ pc' = Set(pc, p, "wait_body")
    /\ UNCHANGED <<m, entries, nEnt, closeCount, key, ent, value, err, last>>
    /\ UNCHANGED histVars

\* wait without the removed test
RemovedIgnored(e) == FALSE

\* line 102: `if e.removed`
Removed(e) == entries[e].removed

\* lines 102-104: `if e.removed { return nil, nil, true }`, and acquire's `continue`
wait_Retry(p) ==
    /\ pc[p] = "wait_body"
    /\ Removed(ent[p])
    /\ mu' = Nil
    /\ ent' = Set(ent, p, Nil)
    /\ pc' = Set(pc, p, "acq_lock")
    /\ UNCHANGED <<m, entries, nEnt, closeCount, key, value, err, last>>
    /\ UNCHANGED histVars

\* wait returning the tunnel without counting the reference
waitNoRefCount(e) == entries[e]

\* wait counting the reference twice
waitRefCountTwice(e) == [entries[e] EXCEPT !.refCount = @ + 2]

\* line 105: e.refCount++
waitRefCount(e) == [entries[e] EXCEPT !.refCount = @ + 1]

\* lines 105-106: `e.refCount++; return e.val, nil, false`, and acquire's return
wait_Take(p) ==
    /\ pc[p] = "wait_body"
    /\ ~Removed(ent[p])
    /\ entries' = Set(entries, ent[p], waitRefCount(ent[p]))
    /\ mu' = Nil
    /\ value' = Set(value, p, entries[ent[p]].val)
    /\ ent' = Set(ent, p, Nil)
    /\ pc' = Set(pc, p, "acq_ret")
    /\ Returned(entries[ent[p]].val)
    /\ UNCHANGED <<m, nEnt, closeCount, key, err, last>>
    /\ UNCHANGED <<evictedBy, forgot>>

\* ------------------------------------- sshClientPool.release / tryRelease
\* line 136: p.mu.Lock()
tryRelease_Lock(p) ==
    /\ pc[p] = "rel_lock"
    /\ mu = Nil
    /\ mu' = p
    /\ pc' = Set(pc, p, "rel_body")
    /\ UNCHANGED <<m, entries, nEnt, closeCount, key, ent, value, err, last>>
    /\ UNCHANGED histVars

\* the staleness test without the identity comparison: `if !has`
StaleNoIdentity(v) == ~Has(TunnelKey(v))

\* lines 139-140, 171-172: `e, has := p.m[value.key]; if !has || e.val != value`
Stale(v) == IF Has(TunnelKey(v)) THEN entries[m[TunnelKey(v)]].val # v ELSE TRUE

\* lines 140-143: the slot does not hold value: `return true`
tryRelease_Stale(p) ==
    /\ pc[p] = "rel_body"
    /\ Stale(value[p])
    /\ mu' = Nil
    /\ last' = Set(last, p, TRUE)
    /\ pc' = Set(pc, p, "rel_close")
    /\ UNCHANGED <<m, entries, nEnt, closeCount, key, ent, value, err>>
    /\ UNCHANGED histVars

\* a release that leaves refCount as it was while references remain
tryRelease_SharedKeeps(p) ==
    /\ pc[p] = "rel_body"
    /\ ~Stale(value[p])
    /\ entries[m[TunnelKey(value[p])]].refCount - 1 > 0
    /\ mu' = Nil
    /\ last' = Set(last, p, FALSE)
    /\ pc' = Set(pc, p, "rel_ret")
    /\ UNCHANGED <<m, entries, nEnt, closeCount, key, ent, value, err>>
    /\ UNCHANGED histVars

\* a release that removes the entry although references remain
tryRelease_SharedEvicts(p) ==
    /\ pc[p] = "rel_body"
    /\ ~Stale(value[p])
    /\ LET e == m[TunnelKey(value[p])] IN
         /\ entries[e].refCount - 1 > 0
         /\ entries' = Set(entries, e, [entries[e] EXCEPT !.refCount = @ - 1,
                                                          !.removed = TRUE])
         /\ m' = Set(m, TunnelKey(value[p]), Nil)
         /\ evictedBy' = Set(evictedBy, e, "release")
    /\ mu' = Nil
    /\ last' = Set(last, p, TRUE)
    /\ pc' = Set(pc, p, "rel_close")
    /\ UNCHANGED <<nEnt, closeCount, key, ent, value, err>>
    /\ UNCHANGED <<forgot, batch, retVals>>

\* lines 148-151: `e.refCount--; if e.refCount > 0 { return false }`, and release's `return nil`
tryRelease_Shared(p) ==
    /\ pc[p] = "rel_body"
    /\ ~Stale(value[p])
    /\ LET e == m[TunnelKey(value[p])] IN
         /\ entries[e].refCount - 1 > 0
         /\ entries' = Set(entries, e, [entries[e] EXCEPT !.refCount = @ - 1])
    /\ mu' = Nil
    /\ last' = Set(last, p, FALSE)
    /\ pc' = Set(pc, p, "rel_ret")
    /\ UNCHANGED <<m, nEnt, closeCount, key, ent, value, err>>
    /\ UNCHANGED histVars

\* lines 148-155: `e.refCount--`, not > 0: `e.removed = true; delete(p.m, value.key); return true`
tryRelease_Last(p) ==
    /\ pc[p] = "rel_body"
    /\ ~Stale(value[p])
    /\ LET e == m[TunnelKey(value[p])] IN
         /\ ~(entries[e].refCount - 1 > 0)
         /\ entries' = Set(entries, e, [entries[e] EXCEPT !.refCount = @ - 1,
                                                          !.removed = TRUE])
         /\ m' = Set(m, TunnelKey(value[p]), Nil)
         /\ evictedBy' = Set(evictedBy, e, "release")
    /\ mu' = Nil
    /\ last' = Set(last, p, TRUE)
    /\ pc' = Set(pc, p, "rel_close")
    /\ UNCHANGED <<nEnt, closeCount, key, ent, value, err>>
    /\ UNCHANGED <<forgot, batch, retVals>>

\* sshClient.Close() returns nil or an error
CloseResults == {"nil", "closeErr"}

\* lines 125-127: `if last { return value.client.Close() }`
release_Close(p) ==
    /\ pc[p] = "rel_close"
    /\ last[p]
    /\ closeCount' = Set(closeCount, value[p], closeCount[value[p]] + 1)
    /\ \E r \in CloseResults : err' = Set(err, p, r)
    /\ pc' = Set(pc, p, "rel_ret")
    /\ UNCHANGED <<mu, m, entries, nEnt>>
    /\ UNCHANGED <<key, ent, value, last>>
    /\ UNCHANGED histVars

\* --------------------------------------- sshClientPool.forget / tryForget
\* line 168: p.mu.Lock()
tryForget_Lock(p) ==
    /\ pc[p] = "fgt_lock"
    /\ mu = Nil
    /\ mu' = p
    /\ pc' = Set(pc, p, "fgt_body")
    /\ UNCHANGED <<m, entries, nEnt, closeCount, key, ent, value, err, last>>
    /\ UNCHANGED histVars

\* lines 172-175: the slot does not hold value: `return`
tryForget_Stale(p) ==
    /\ pc[p] = "fgt_body"
    /\ Stale(value[p])
    /\ mu' = Nil
    /\ pc' = Set(pc, p, "fgt_close")
    /\ UNCHANGED <<m, entries, nEnt, closeCount, key, ent, value, err, last>>
    /\ UNCHANGED histVars

\* a forget that deletes the key and leaves the removed flag alone
tryForget_EvictUnmarked(p) ==
    /\ pc[p] = "fgt_body"
    /\ ~Stale(value[p])
    /\ LET e == m[TunnelKey(value[p])] IN
         /\ m' = Set(m, TunnelKey(value[p]), Nil)
         /\ evictedBy' = Set(evictedBy, e, "forget")
    /\ mu' = Nil
    /\ pc' = Set(pc, p, "fgt_close")
    /\ UNCHANGED <<entries, nEnt, closeCount, key, ent, value, err, last>>
    /\ UNCHANGED <<forgot, batch, retVals>>

\* lines 180-182: `e.removed = true; delete(p.m, value.key)`
tryForget_Evict(p) ==
    /\ pc[p] = "fgt_body"
    /\ ~Stale(value[p])
    /\ LET e == m[TunnelKey(value[p])] IN
         /\ entries' = Set(entries, e, [entries[e] EXCEPT !.removed = TRUE])
         /\ m' = Set(m, TunnelKey(value[p]), Nil)
         /\ evictedBy' = Set(evictedBy, e, "forget")
    /\ mu' = Nil
    /\ pc' = Set(pc, p, "fgt_close")
    /\ UNCHANGED <<nEnt, closeCount, key, ent, value, err, last>>
    /\ UNCHANGED <<forgot, batch, retVals>>

\* line 160: `_ = value.client.Close()`, and forget returns
forget_Close(p) ==
    /\ pc[p] = "fgt_close"
    /\ closeCount' = Set(closeCount, value[p], closeCount[value[p]] + 1)
    /\ forgot' = Set(forgot, value[p], TRUE)
    /\ pc' = Set(pc, p, "fgt_ret")
    /\ UNCHANGED <<mu, m, entries, nEnt>>
    /\ UNCHANGED <<key, ent, value, err, last>>
    /\ UNCHANGED <<evictedBy, batch, retVals>>

\* the steps of the pool's own code
PoolStep(p) ==
    /\ \/ acquire_Lock(p)
       \/ acquire_Found(p)
       \/ acquire_Publish(p)
       \/ acquire_Ctor(p)
       \/ acquire_SetVal(p)
       \/ acquire_SetRemoved(p)
       \/ acquire_DeleteLock(p)
       \/ acquire_Delete(p)
       \/ acquire_CloseDone(p)
       \/ acquire_Return(p)
       \/ wait_Cancelled(p)
       \/ wait_Done(p)
       \/ wait_Lock(p)
       \/ wait_Retry(p)
       \/ wait_Take(p)
       \/ tryRelease_Lock(p)
       \/ tryRelease_Stale(p)
       \/ tryRelease_Shared(p)
       \/ tryRelease_Last(p)
       \/ release_Close(p)
       \/ tryForget_Lock(p)
       \/ tryForget_Stale(p)
       \/ tryForget_Evict(p)
       \/ forget_Close(p)
    /\ UNCHANGED dialVars
    /\ UNCHANGED connVars
    /\ UNCHANGED keepVars

\* ------------------------------------------------- a holder of the pool
\* the goroutines inside acquire that may still publish an entry of their own
MayPublish == {q \in Procs : pc[q] \in {"acq_lock", "acq_lookup", "wait", "wait_lock", "wait_body"}}

\* a new call to acquire is let in only if an entry is left for it to publish
CanAcquire == nEnt + Cardinality(MayPublish) < MaxEntries

\* a goroutine calls acquire(ctx, k, ctor)
CallAcquire(p, k) ==
    /\ pc[p] = "idle"
    /\ CanAcquire
    /\ pc' = Set(pc, p, "acq_lock")
    /\ key' = Set(key, p, k)
    /\ batch' = IF batch = "returning" THEN "broken" ELSE batch
    /\ retVals' = IF batch = "returning" THEN {} ELSE retVals
    /\ UNCHANGED poolVars
    /\ UNCHANGED <<ent, value, err, last>>
    /\ UNCHANGED <<evictedBy, forgot>>
    /\ UNCHANGED dialVars
    /\ UNCHANGED connVars
    /\ UNCHANGED keepVars

\* the call is over: its locals, its context and the connection it owned are gone
Idle(p) ==
    /\ pc' = Set(pc, p, "idle")
    /\ key' = Set(key, p, NoKey)
    /\ ent' = Set(ent, p, Nil)
    /\ value' = Set(value, p, Nil)
    /\ err' = Set(err, p, "nil")
    /\ last' = Set(last, p, FALSE)
    /\ attempt' = Set(attempt, p, 0)
    /\ tried' = Set(tried, p, <<>>)
    /\ result' = Set(result, p, <<>>)
    /\ once' = Set(once, p, "none")
    /\ closeErr' = Set(closeErr, p, "nil")
    /\ relCalls' = Set(relCalls, p, 0)
    /\ reclosed' = Set(reclosed, p, FALSE)
    /\ target' = Set(target, p, Nil)
    /\ err1' = Set(err1, p, "nil")
    /\ UNCHANGED nDials
    /\ UNCHANGED keepVars

\* acquire returned an error: the caller holds nothing
AcquireFailed(p) ==
    /\ pc[p] = "acq_ret"
    /\ err[p] # "nil"
    /\ Idle(p)
    /\ UNCHANGED poolVars
    /\ UNCHANGED histVars

\* the holder calls value.release()
CallRelease(p) ==
    /\ pc[p] = "acq_ret"
    /\ err[p] = "nil"
    /\ pc' = Set(pc, p, "rel_lock")
    /\ UNCHANGED poolVars
    /\ UNCHANGED <<key, ent, value, err, last>>
    /\ UNCHANGED histVars
    /\ UNCHANGED dialVars
    /\ UNCHANGED connVars
    /\ UNCHANGED keepVars

\* the holder calls value.forget()
CallForget(p) ==
    /\ pc[p] = "acq_ret"
    /\ err[p] = "nil"
    /\ pc' = Set(pc, p, "fgt_lock")
    /\ UNCHANGED poolVars
    /\ UNCHANGED <<key, ent, value, err, last>>
    /\ UNCHANGED histVars
    /\ UNCHANGED dialVars
    /\ UNCHANGED connVars
    /\ UNCHANGED keepVars

\* release or forget returned: the goroutine no longer holds the tunnel
Dropped(p) ==
    /\ pc[p] \in {"rel_ret", "fgt_ret"}
    /\ Idle(p)
    /\ UNCHANGED poolVars
    /\ UNCHANGED histVars

HolderStep(p) ==
    \/ \E k \in Keys : CallAcquire(p, k)
    \/ AcquireFailed(p)
    \/ CallRelease(p)
    \/ CallForget(p)
    \/ Dropped(p)

Next == \E p \in Procs : PoolStep(p) \/ HolderStep(p)

Spec == Init /\ [][Next]_vars

\* every goroutine inside the pool's code runs when it can, and one waiting
\* for p.mu gets it in the end (Go's scheduler; sync.Mutex hands the lock to
\* a goroutine that has waited long)
PoolFairness == \A p \in Procs : SF_vars(PoolStep(p))

\* callers that acquire and keep what they get
NextAcquire ==
    \E p \in Procs :
        \/ PoolStep(p)
        \/ \E k \in Keys : CallAcquire(p, k)
        \/ AcquireFailed(p)

\* concurrent calls of acquire under that scheduling
SpecFair == Init /\ [][NextAcquire]_vars /\ PoolFairness

TypeOK ==
    /\ mu \in Procs \cup {Nil}
    /\ m \in [Keys -> Ents \cup {Nil}]
    /\ nEnt \in 0..MaxEntries
    /\ \A e \in Ents : entries[e].refCount \in -1..NProcs

\* ------------------------------------------------- DialContext (multiplexed)
\* `const dialAttempts = 2`
dialAttempts == 2

\* wrapErr, lines 117-122: nil stays nil, any other error gets the package's prefix
wrapErr(e) == IF e = <<>> THEN <<>> ELSE <<"mytunnel/dial">> \o e

\* the error of the sub-dial made in iteration n of the loop
SubDialErr(n) == <<"subdialErr", IF n = 1 THEN "first" ELSE "second">>

\* the record of one sub-connection dial: the tunnel it used and how it ended
Tried(p, r) == Set(tried, p, Append(tried[p], [h |-> value[p], res |-> r]))

\* lines 26-29: DialContext enters its loop and calls getSshTunnel, which calls
\* clientPool.acquire
Dial_Start(p, k) ==
    /\ pc[p] = "idle"
    /\ CanAcquire
    /\ nDials < MaxDials
    /\ nDials' = nDials + 1
    /\ attempt' = Set(attempt, p, 1)
    /\ key' = Set(key, p, k)
    /\ pc' = Set(pc, p, "acq_lock")
    /\ batch' = "broken"
    /\ retVals' = {}
    /\ UNCHANGED poolVars
    /\ UNCHANGED <<ent, value, err, last>>
    /\ UNCHANGED <<evictedBy, forgot, tried, result>>
    /\ UNCHANGED connVars
    /\ UNCHANGED keepVars

\* lines 30-32: `if err != nil { return nil, wrapErr(err) }`
Dial_AcquireFailed(p) ==
    /\ pc[p] = "acq_ret"
    /\ err[p] # "nil"
    /\ result' = Set(result, p, wrapErr(<<err[p]>>))
    /\ pc' = Set(pc, p, "dial_ret")
    /\ UNCHANGED poolVars
    /\ UNCHANGED <<key, ent, value, err, last>>
    /\ UNCHANGED histVars
    /\ UNCHANGED <<attempt, tried, nDials>>
    /\ UNCHANGED connVars
    /\ UNCHANGED keepVars

\* a latch that never holds a caller back
KeepAliveFreshAlways(h) == TRUE

\* sshPooledTunnel.keepAliveOnce (tunnel_pool.go:30) has not fired yet
KeepAliveFresh(h) == ~kaOnce[h]

\* sshPooledTunnel.keepAlive(params), called at line 47: when the parameters
\* enable keep-alive (ka: ServerAliveInterval > 0, keep_alive.go:84-86) and the
\* tunnel's latch has not fired, the latch fires and one keepAliveLoop is
\* started on the tunnel's client (keep_alive.go:71-75); otherwise nothing
Tunnel_keepAlive(h, ka) ==
    /\ kaOnce' = IF ka /\ KeepAliveFresh(h) THEN Set(kaOnce, h, TRUE) ELSE kaOnce
    /\ engines' = IF ka /\ KeepAliveFresh(h) THEN Set(engines, h, engines[h] + 1) ELSE engines
    /\ UNCHANGED kaExited
    /\ UNCHANGED loopVars
    /\ UNCHANGED timeVars
    /\ UNCHANGED sdVars
    /\ UNCHANGED cacheVars

\* lines 34, 47-48: `sshTun.client.DialContext(ctx, ...)` succeeded:
\* `sshTun.keepAlive(config.Params); return &tunnelConn{...}, nil`
Dial_SubDialOk(p, ka) ==
    /\ pc[p] = "acq_ret"
    /\ err[p] = "nil"
    /\ tried' = Tried(p, "ok")
    /\ result' = Set(result, p, <<>>)
    /\ Tunnel_keepAlive(value[p], ka)
    /\ pc' = Set(pc, p, "conn")
    /\ UNCHANGED poolVars
    /\ UNCHANGED <<key, ent, value, err, last>>
    /\ UNCHANGED histVars
    /\ UNCHANGED <<attempt, nDials>>
    /\ once' = Set(once, p, "new")
    /\ UNCHANGED <<closeErr, relCalls, reclosed, target, err1>>

\* the context's error handled like any other sub-dial error: forget and retry
Dial_SubDialCancelledRetries(p) ==
    /\ pc[p] = "acq_ret"
    /\ err[p] = "nil"
    /\ tried' = Tried(p, "ctxErr")
    /\ result' = Set(result, p, SubDialErr(attempt[p]))
    /\ pc' = Set(pc, p, "fgt_lock")
    /\ UNCHANGED poolVars
    /\ UNCHANGED <<key, ent, value, err, last>>
    /\ UNCHANGED histVars
    /\ UNCHANGED <<attempt, nDials>>
    /\ UNCHANGED connVars
    /\ UNCHANGED keepVars

\* lines 34-38: the sub-dial failed with the error of the cancelled context:
\* `if errors.Is(err, ctx.Err()) { _ = sshTun.release(); return nil, err }`
Dial_SubDialCancelled(p) ==
    /\ pc[p] = "acq_ret"
    /\ err[p] = "nil"
    /\ tried' = Tried(p, "ctxErr")
    /\ result' = Set(result, p, <<"ctxErr">>)
    /\ pc' = Set(pc, p, "rel_lock")
    /\ UNCHANGED poolVars
    /\ UNCHANGED <<key, ent, value, err, last>>
    /\ UNCHANGED histVars
    /\ UNCHANGED <<attempt, nDials>>
    /\ UNCHANGED connVars
    /\ UNCHANGED keepVars

\* a loop that keeps the first sub-dial error as lastErr
Dial_SubDialFailedKeepsFirst(p) ==
    /\ pc[p] = "acq_ret"
    /\ err[p] = "nil"
    /\ tried' = Tried(p, "fail")
    /\ result' = Set(result, p, IF result[p] = <<>> THEN SubDialErr(attempt[p]) ELSE result[p])
    /\ pc' = Set(pc, p, "fgt_lock")
    /\ UNCHANGED poolVars
    /\ UNCHANGED <<key, ent, value, err, last>>
    /\ UNCHANGED histVars
    /\ UNCHANGED <<attempt, nDials>>
    /\ UNCHANGED connVars
    /\ UNCHANGED keepVars

\* lines 34, 40-43: the sub-dial failed with another error: `lastErr = err; sshTun.forget()`
Dial_SubDialFailed(p) ==
    /\ pc[p] = "acq_ret"
    /\ err[p] = "nil"
    /\ tried' = Tried(p, "fail")
    /\ result' = Set(result, p, SubDialErr(attempt[p]))
    /\ pc' = Set(pc, p, "fgt_lock")
    /\ UNCHANGED poolVars
    /\ UNCHANGED <<key, ent, value, err, last>>
    /\ UNCHANGED histVars
    /\ UNCHANGED <<attempt, nDials>>
    /\ UNCHANGED connVars
    /\ UNCHANGED keepVars

\* line 38: release returned on the cancellation path: `return nil, err`
Dial_Cancelled(p) ==
    /\ pc[p] = "rel_ret"
    /\ result[p] = <<"ctxErr">>
    /\ pc' = Set(pc, p, "dial_ret")
    /\ UNCHANGED poolVars
    /\ UNCHANGED <<key, ent, value, err, last>>
    /\ UNCHANGED histVars
    /\ UNCHANGED dialVars
    /\ UNCHANGED connVars
    /\ UNCHANGED keepVars

\* lines 44, 28-29: forget returned: `continue` into the next iteration, which
\* calls acquire again
Dial_Retry(p) ==
    /\ pc[p] = "fgt_ret"
    /\ attempt[p] < dialAttempts
    /\ CanAcquire
    /\ attempt' = Set(attempt, p, attempt[p] + 1)
    /\ value' = Set(value, p, Nil)
    /\ pc' = Set(pc, p, "acq_lock")
    /\ UNCHANGED poolVars
    /\ UNCHANGED <<key, ent, err, last>>
    /\ UNCHANGED histVars
    /\ UNCHANGED <<tried, result, nDials>>
    /\ UNCHANGED connVars
    /\ UNCHANGED keepVars

\* lines 44, 28, 51: forget returned and the loop is over: `return nil, wrapErr(lastErr)`
Dial_Exhausted(p) ==
    /\ pc[p] = "fgt_ret"
    /\ ~(attempt[p] < dialAttempts)
    /\ result' = Set(result, p, wrapErr(result[p]))
    /\ pc' = Set(pc, p, "dial_ret")
    /\ UNCHANGED poolVars
    /\ UNCHANGED <<key, ent, value, err, last>>
    /\ UNCHANGED histVars
    /\ UNCHANGED <<attempt, tried, nDials>>
    /\ UNCHANGED connVars
    /\ UNCHANGED keepVars

\* DialContext has returned an error to its caller
Dial_Done(p) ==
    /\ pc[p] = "dial_ret"
    /\ Idle(p)
    /\ UNCHANGED poolVars
    /\ UNCHANGED histVars

\* ------------------------------------------------------- tunnelConn.Close
\* a join in which the first error hides the second
JoinFirstOnly(a, b) == IF a # "nil" THEN <<a>> ELSE IF b # "nil" THEN <<b>> ELSE <<>>

\* line 114, errors.Join(a, b): the non-nil errors, in order; nil when both are nil
Join(a, b) == (IF a # "nil" THEN <<a>> ELSE <<>>) \o (IF b # "nil" THEN <<b>> ELSE <<>>)

\* net.Conn.Close() of the sub-connection returns nil or an error
ConnCloseResults == {"nil", "connErr"}

\* a latch that lets every caller through
OnceFreshAlways(o) == once[o] # "none"

\* closeOnce.Do runs its function: no call has entered it yet
OnceFresh(o) == once[o] = "new"

\* lines 110-111: goroutine q calls Close on the tunnelConn of o:
\* `err1 := t.Conn.Close()` returns r, then closeOnce.Do: the first caller goes on into
\* t.tunnel.release(), a caller that finds the function running blocks, a
\* caller that finds it done returns errors.Join(err1, t.closeErr) (line 114)
Conn_Close(q, o, r) ==
    /\ once[o] # "none"
    /\ reclosed' = Set(reclosed, o, reclosed[o] \/ ~OnceFresh(o))
    /\ target' = Set(target, q, o)
    /\ err1' = Set(err1, q, r)
    /\ IF OnceFresh(o)
         THEN /\ once' = Set(once, o, "running")
              /\ relCalls' = Set(relCalls, o, relCalls[o] + 1)
              /\ value' = Set(value, q, value[o])
              /\ pc' = Set(pc, q, "rel_lock")
              /\ UNCHANGED result
         ELSE IF once[o] = "running"
         THEN /\ pc' = Set(pc, q, "once_wait")
              /\ UNCHANGED <<once, relCalls, value, result>>
         ELSE /\ pc' = Set(pc, q, "closed")
              /\ result' = Set(result, q, Join(r, closeErr[o]))
              /\ UNCHANGED <<once, relCalls, value>>
    /\ UNCHANGED poolVars
    /\ UNCHANGED <<key, ent, err, last>>
    /\ UNCHANGED histVars
    /\ UNCHANGED <<attempt, tried, nDials, closeErr>>
    /\ UNCHANGED keepVars

\* lines 111, 114: a caller blocked in closeOnce.Do goes on when the function
\* has returned: `return errors.Join(err1, t.closeErr)`
Conn_OnceWait(q) ==
    /\ pc[q] = "once_wait"
    /\ once[target[q]] = "done"
    /\ result' = Set(result, q, Join(err1[q], closeErr[target[q]]))
    /\ pc' = Set(pc, q, "closed")
    /\ UNCHANGED poolVars
    /\ UNCHANGED <<key, ent, value, err, last>>
    /\ UNCHANGED histVars
    /\ UNCHANGED <<attempt, tried, nDials>>
    /\ UNCHANGED connVars
    /\ UNCHANGED keepVars

\* lines 112-114: release returned inside closeOnce.Do: `t.closeErr = ...`, the
\* latch is done, `return errors.Join(err1, t.closeErr)`
Conn_Closed(q) ==
    /\ pc[q] = "rel_ret"
    /\ target[q] # Nil
    /\ closeErr' = Set(closeErr, target[q], err[q])
    /\ once' = Set(once, target[q], "done")
    /\ result' = Set(result, q, Join(err1[q], err[q]))
    /\ pc' = Set(pc, q, "closed")
    /\ UNCHANGED poolVars
    /\ UNCHANGED <<key, ent, value, err, last>>
    /\ UNCHANGED histVars
    /\ UNCHANGED <<attempt, tried, nDials>>
    /\ UNCHANGED <<relCalls, reclosed, target, err1>>
    /\ UNCHANGED keepVars

\* the goroutine that got the connection from DialContext closes it, and the
\* sub-connection closes without an error
OwnerCloses(p) ==
    /\ pc[p] = "conn"
    /\ Conn_Close(p, p, "nil")

\* Close has returned to goroutine q; the owner lets go of the connection when
\* no other goroutine is inside its Close
Conn_Dropped(q) ==
    /\ pc[q] = "closed"
    /\ target[q] = q => \A r \in Procs \ {q} : target[r] # q
    /\ Idle(q)
    /\ UNCHANGED poolVars
    /\ UNCHANGED histVars

DialStep(p) ==
    \/ \E k \in Keys : Dial_Start(p, k)
    \/ Dial_AcquireFailed(p)
    \/ Dial_SubDialOk(p, FALSE)
    \/ Dial_SubDialCancelled(p)
    \/ Dial_SubDialFailed(p)
    \/ Dial_Cancelled(p)
    \/ Dial_Retry(p)
    \/ Dial_Exhausted(p)
    \/ Dial_Done(p)
    \/ OwnerCloses(p)
    \/ Conn_Closed(p)
    \/ Conn_Dropped(p)

NextDial == \E p \in Procs : PoolStep(p) \/ DialStep(p)

\* goroutines that only call DialContext, with addresses that set no
\* ServerAliveInterval, and close the connections they get
SpecDial == Init /\ [][NextDial]_vars

\* ---------------------------------------------- callers of tunnelConn.Close
\* the owner of a connection calls Close on it, for the first time or again
OwnerClosesAny(p) ==
    /\ pc[p] \in {"conn", "closed"}
    /\ once[p] # "none"
    /\ \E r \in ConnCloseResults : Conn_Close(p, p, r)

\* a goroutine outside any call calls Close on the connection of another one
OtherCloses(q) ==
    /\ pc[q] = "idle"
    /\ \E o \in Procs \ {q} : \E r \in ConnCloseResults : Conn_Close(q, o, r)

ConnStep(p) ==
    \/ \E k \in Keys : Dial_Start(p, k)
    \/ Dial_AcquireFailed(p)
    \/ Dial_Done(p)
    \/ Dial_SubDialOk(p, FALSE)
    \/ OwnerClosesAny(p)
    \/ OtherCloses(p)
    \/ Conn_OnceWait(p)
    \/ Conn_Closed(p)
    \/ Conn_Dropped(p)

NextConn == \E p \in Procs : PoolStep(p) \/ ConnStep(p)

\* goroutines that dial, with sub-dials that succeed, and call Close on the
\* connections any number of times, from any goroutine
SpecConn == Init /\ [][NextConn]_vars

\* ------------------------------------------- keep-alive on a pooled client

\* keepAliveLoop (keep_alive.go:93-150) returns: by each of its three returns
\* (Wait returned, lines 119-122; io.EOF, 130-135; timeouts or another error,
\* 143-145) it has called cli.Close() and nothing else
keepAliveLoop_Return(h) ==
    /\ engines[h] > 0
    /\ ~kaExited[h]
    /\ closeCount' = Set(closeCount, h, closeCount[h] + 1)
    /\ kaExited' = Set(kaExited, h, TRUE)
    /\ UNCHANGED <<mu, m, entries, nEnt>>
    /\ UNCHANGED procVars
    /\ UNCHANGED histVars
    /\ UNCHANGED dialVars
    /\ UNCHANGED connVars
    /\ UNCHANGED <<kaOnce, engines>>
    /\ UNCHANGED loopVars
    /\ UNCHANGED timeVars
    /\ UNCHANGED sdVars
    /\ UNCHANGED cacheVars

\* goroutines that call DialContext with or without ServerAliveInterval and
\* close the connections they get
KeepStep(p) ==
    \/ \E k \in Keys : Dial_Start(p, k)
    \/ Dial_AcquireFailed(p)
    \/ \E ka \in BOOLEAN : Dial_SubDialOk(p, ka)
    \/ Dial_Done(p)
    \/ OwnerCloses(p)
    \/ Conn_Closed(p)
    \/ Conn_Dropped(p)

NextKeep ==
    \/ \E p \in Procs : PoolStep(p) \/ KeepStep(p)
    \/ \E h \in Ents : keepAliveLoop_Return(h)

SpecKeep == Init /\ [][NextKeep]_vars

\* ------------------------------------------------ keepAliveLoop, one client
\* `serverAliveCountMax = 3`
serverAliveCountMax == 3

\* `serverAliveLagMax = 2 * time.Second`, in seconds
serverAliveLagMax == 2

\* makeKeepAliveConfig, lines 33-44, for parameters with ServerAliveInterval > 0;
\* -1 stands for a parameter that is absent or invalid (kaParse)
makeKeepAliveConfig(i, cm, t, l) ==
    [countMax |-> IF cm < 0 THEN serverAliveCountMax ELSE cm,
     timeout  |-> IF t <= 0 THEN i ELSE t,
     lag      |-> IF l < 0 THEN serverAliveLagMax ELSE l]

\* everything outside keepAliveLoop and its single-flight goroutine
LoopFrame ==
    /\ UNCHANGED poolVars
    /\ UNCHANGED procVars
    /\ UNCHANGED histVars
    /\ UNCHANGED dialVars
    /\ UNCHANGED connVars
    /\ UNCHANGED <<kaOnce, engines, kaExited>>
    /\ UNCHANGED sdVars
    /\ UNCHANGED cacheVars

\* keepAlive, lines 71-75, and keepAliveLoop, lines 93-109: the loop is started
\* with its configuration; `serverAliveCounter := config.serverAliveCountMax;
\* hadTimeout := false`
keepAliveLoop_Start(i, cm, t, l) ==
    /\ loop = "off"
    /\ config' = makeKeepAliveConfig(i, cm, t, l)
    /\ serverAliveCounter' = config'.countMax
    /\ hadTimeout' = FALSE
    /\ loop' = "top"
    /\ UNCHANGED <<flight, flightErr, waitDone, loopCloses, took, misses, allAcked, acked>>
    /\ UNCHANGED inFlight
    /\ UNCHANGED <<readCh, tickSig, fresh>>
    /\ LoopFrame

\* a loop head that never decrements
LoopTopKeeps(h, c) == IF h THEN c ELSE config.countMax

\* lines 111-115: `if hadTimeout { serverAliveCounter-- } else
\* { serverAliveCounter = config.serverAliveCountMax }`
LoopTop(h, c) == IF h THEN c - 1 ELSE config.countMax

\* lines 111-116: the head of the loop, up to the select
keepAliveLoop_Top ==
    /\ loop = "top"
    /\ serverAliveCounter' = LoopTop(hadTimeout, serverAliveCounter)
    /\ hadTimeout' = FALSE
    /\ loop' = "select"
    /\ UNCHANGED <<config, flight, flightErr, waitDone, loopCloses, took, misses, allAcked, acked>>
    /\ UNCHANGED inFlight
    /\ UNCHANGED <<readCh, tickSig, fresh>>
    /\ LoopFrame

\* lines 103-106: `_ = cli.Wait(); close(waitDone)`: the client has terminated
Client_WaitReturns ==
    /\ loop \notin {"off", "done"}
    /\ ~waitDone
    /\ waitDone' = TRUE
    /\ UNCHANGED <<loop, config, serverAliveCounter, hadTimeout, flight, flightErr,
                   loopCloses, took, misses, allAcked, acked>>
    /\ UNCHANGED inFlight
    /\ UNCHANGED <<readCh, tickSig, fresh>>
    /\ LoopFrame

\* lines 119-122: `case <-waitDone: _ = cli.Close(); return`
keepAliveLoop_WaitDone ==
    /\ loop = "select"
    /\ waitDone
    /\ loopCloses' = loopCloses + 1
    /\ loop' = "done"
    /\ UNCHANGED <<config, serverAliveCounter, hadTimeout, flight, flightErr,
                   waitDone, took, misses, allAcked, acked>>
    /\ UNCHANGED inFlight
    /\ UNCHANGED <<readCh, tickSig, fresh>>
    /\ LoopFrame

\* lines 146-147: `case <-cli.successfulRead(): ticker.Reset(...)`, and back to
\* the head of the loop
keepAliveLoop_Read ==
    /\ loop = "select"
    /\ readCh
    /\ readCh' = FALSE
    /\ fresh' = TRUE
    /\ UNCHANGED tickSig
    /\ loop' = "top"
    /\ misses' = 0
    /\ UNCHANGED <<config, serverAliveCounter, hadTimeout, flight, flightErr,
                   waitDone, loopCloses, took, allAcked, acked>>
    /\ UNCHANGED inFlight
    /\ LoopFrame

\* netConn.Read, net_conn.go:12-21: a successful read of the connection puts a
\* signal into readCh unless one is there
netConn_Read ==
    /\ loop \notin {"off", "done"}
    /\ readCh' = TRUE
    /\ UNCHANGED <<loop, config, serverAliveCounter, hadTimeout, flight, flightErr,
                   waitDone, loopCloses, took, misses, allAcked, acked, inFlight,
                   tickSig, fresh>>
    /\ LoopFrame

\* a loop to which no probe result is a success
ProbeOkNever(e) == FALSE

\* a loop to which every probe result is a success
ProbeOkAlways(e) == TRUE

\* line 126: `if err == nil`
ProbeOk(e) == e = "nil"

\* a loop that gives up one miss earlier
MayContinueAboveOne(c) == c > 1

\* line 139: `serverAliveCounter > 0`
MayContinue(c) == c > 0

\* a loop that counts every error but io.EOF as a miss
keepAliveLoop_HandleCounting(e) ==
    /\ hadTimeout' = IF ProbeOk(e) \/ e = "EOF" THEN hadTimeout ELSE TRUE
    /\ IF ProbeOk(e) \/ (e # "EOF" /\ MayContinue(serverAliveCounter))
          THEN /\ loop' = "top"
               /\ loopCloses' = loopCloses
          ELSE /\ loop' = "done"
               /\ loopCloses' = loopCloses + 1
    /\ misses' = IF e = "timeout" THEN misses + 1 ELSE 0
    /\ UNCHANGED <<config, serverAliveCounter, waitDone>>

\* lines 126-145: what keepAliveLoop does with the error e returned by
\* sendKeepAliveRequest: continue on nil; Close and return on io.EOF; continue
\* on errKeepAliveTimeout while serverAliveCounter > 0; else Close and return
keepAliveLoop_Handle(e) ==
    /\ hadTimeout' = IF ProbeOk(e) \/ e = "EOF" THEN hadTimeout ELSE (e = "timeout")
    /\ IF ProbeOk(e) \/ (e # "EOF" /\ e = "timeout" /\ MayContinue(serverAliveCounter))
          THEN /\ loop' = "top"
               /\ loopCloses' = loopCloses
          ELSE /\ loop' = "done"
               /\ loopCloses' = loopCloses + 1
    /\ misses' = IF e = "timeout" THEN misses + 1 ELSE 0
    /\ UNCHANGED <<config, serverAliveCounter, waitDone>>

\* lines 123-125 and sendKeepAliveRequest, lines 173-191: the ticker fires; a
\* result of an earlier request that is waiting on resp is taken and, unless
\* nil, returned; otherwise the timer is started and the main select entered
keepAliveLoop_Tick ==
    /\ loop = "select"
    /\ took' = 0
    /\ IF flight = "ready"
          THEN /\ flight' = "idle"
               /\ IF flightErr # "nil"
                     THEN keepAliveLoop_Handle(flightErr)
                     ELSE /\ loop' = "probe"
                          /\ UNCHANGED <<config, serverAliveCounter, hadTimeout,
                                         waitDone, loopCloses, misses>>
          ELSE /\ loop' = "probe"
               /\ UNCHANGED <<config, serverAliveCounter, hadTimeout, flight,
                              waitDone, loopCloses, misses>>
    /\ UNCHANGED <<flightErr, allAcked, acked>>
    /\ UNCHANGED inFlight
    /\ tickSig' = readCh
    /\ fresh' = FALSE
    /\ UNCHANGED readCh
    /\ LoopFrame

\* a goroutine that takes a request whatever it is doing
FlightReceivesAnyTime == TRUE

\* line 156: `for range req`: the goroutine receives the next request only at
\* the head of its loop, after its last result was taken from resp
FlightReceives == flight = "idle"

\* line 204: `case req <- struct{}{}`: the single-flight goroutine takes the
\* request and calls SendRequest (line 157)
sendKeepAliveRequest_Send ==
    /\ loop = "probe"
    /\ FlightReceives
    /\ flight' = "busy"
    /\ loop' = "sent"
    /\ UNCHANGED <<config, serverAliveCounter, hadTimeout, flightErr, waitDone,
                   loopCloses, took, misses, allAcked, acked>>
    /\ inFlight' = inFlight + 1
    /\ UNCHANGED <<readCh, tickSig, fresh>>
    /\ LoopFrame

\* what client.SendRequest can return: the acknowledgement, io.EOF, another error
SendRequestResults == {"nil", "EOF", "sendErr"}

\* lines 157-158: SendRequest returns e and the goroutine offers it on resp
keepAliveSingleFlight_Return(e) ==
    /\ loop # "off"
    /\ flight = "busy"
    /\ flight' = "ready"
    /\ flightErr' = e
    /\ allAcked' = (allAcked /\ e = "nil")
    /\ UNCHANGED <<loop, config, serverAliveCounter, hadTimeout, waitDone,
                   loopCloses, took, misses, acked>>
    /\ inFlight' = inFlight - 1
    /\ UNCHANGED <<readCh, tickSig, fresh>>
    /\ LoopFrame

\* a goroutine that never sees keepAliveLoop return
LoopReturnedNever == FALSE

\* lines 96-99: `defer close(done)`, `defer close(keepAliveReq)`: both channels
\* are closed when keepAliveLoop returns
LoopReturned == loop = "done"

\* lines 154-163: the end of the single-flight goroutine: `for range req` ends
\* on the closed req, or the select after SendRequest takes `<-done`, as no
\* one receives from resp any more; `defer close(resp)`
keepAliveSingleFlight_Exit ==
    /\ LoopReturned
    /\ flight \in {"idle", "ready"}
    /\ flight' = "exited"
    /\ UNCHANGED <<loop, config, serverAliveCounter, hadTimeout, flightErr, waitDone,
                   loopCloses, took, misses, allAcked, acked, inFlight>>
    /\ UNCHANGED <<readCh, tickSig, fresh>>
    /\ LoopFrame

\* a test that lets the boundary value count as a timeout
LaggedStrictly(tk) == tk > config.timeout + config.lag

\* line 196: `if took >= timeout+lag`
Lagged(tk) == tk >= config.timeout + config.lag

\* a handleTimeout without the lag filter
handleTimeoutUnfiltered(tk) == "timeout"

\* handleTimeout, lines 194-201
handleTimeout(tk) == IF Lagged(tk) THEN "nil" ELSE "timeout"

\* the values time.Since(start) can have once the timer of `timeout` has fired
Tooks == config.timeout .. (config.timeout + config.lag + MaxLatency)

\* lines 206-207, 215-216: `case <-timer.C: return handleTimeout()`
sendKeepAliveRequest_Timer(tk) ==
    /\ loop \in {"probe", "sent"}
    /\ tk \in Tooks
    /\ took' = tk
    /\ allAcked' = FALSE
    /\ keepAliveLoop_Handle(handleTimeout(tk))
    /\ UNCHANGED <<flight, flightErr, acked>>
    /\ UNCHANGED inFlight
    /\ fresh' = (fresh \/ (loop' = "top" /\ ~hadTimeout'))
    /\ UNCHANGED <<readCh, tickSig>>
    /\ LoopFrame

\* lines 208-209, 217-220: `case err := <-resp: return err`
sendKeepAliveRequest_Resp ==
    /\ loop \in {"probe", "sent"}
    /\ flight = "ready"
    /\ flight' = "idle"
    /\ acked' = (acked \/ flightErr = "nil")
    /\ keepAliveLoop_Handle(flightErr)
    /\ UNCHANGED <<flightErr, took, allAcked>>
    /\ UNCHANGED inFlight
    /\ fresh' = (fresh \/ (loop' = "top" /\ ~hadTimeout'))
    /\ UNCHANGED <<readCh, tickSig>>
    /\ LoopFrame

\* a probe that reports traffic as a timeout
ReadResultTimeout == "timeout"

\* lines 212, 222: `return nil`
ReadResult == "nil"

\* lines 210-212, 221-222: `case <-client.successfulRead(): return nil`
sendKeepAliveRequest_Read ==
    /\ loop \in {"probe", "sent"}
    /\ keepAliveLoop_Handle(ReadResult)
    /\ UNCHANGED <<flight, flightErr, took, allAcked, acked>>
    /\ UNCHANGED inFlight
    /\ readCh
    /\ readCh' = FALSE
    /\ fresh' = (fresh \/ (loop' = "top" /\ ~hadTimeout'))
    /\ UNCHANGED tickSig
    /\ LoopFrame

\* the steps of the loop at any speed: time is not followed
NextLoop ==
    \/ /\ \E i \in 1..MaxTimeout : \E cm \in -1..MaxCountMax :
              \E t \in -1..MaxTimeout : \E l \in -1..MaxLagMax :
                  keepAliveLoop_Start(i, cm, t, l)
       /\ UNCHANGED timeVars
    \/ keepAliveLoop_Top /\ UNCHANGED timeVars
    \/ Client_WaitReturns /\ UNCHANGED timeVars
    \/ keepAliveLoop_WaitDone /\ UNCHANGED timeVars
    \/ keepAliveLoop_Read /\ UNCHANGED timeVars
    \/ netConn_Read /\ UNCHANGED timeVars
    \/ keepAliveLoop_Tick /\ UNCHANGED timeVars
    \/ sendKeepAliveRequest_Send /\ UNCHANGED timeVars
    \/ (\E e \in SendRequestResults : keepAliveSingleFlight_Return(e)) /\ UNCHANGED timeVars
    \/ (\E tk \in Tooks : sendKeepAliveRequest_Timer(tk)) /\ UNCHANGED timeVars
    \/ sendKeepAliveRequest_Resp /\ UNCHANGED timeVars
    \/ sendKeepAliveRequest_Read /\ UNCHANGED timeVars
    \/ keepAliveSingleFlight_Exit /\ UNCHANGED timeVars

\* one keepAliveLoop on one client, with every configuration within the bounds
SpecLoop == Init /\ [][NextLoop]_vars

\* what the scheduling gives: the loop runs when it can (lines 110-116); a
\* closed waitDone that is ready at every select is chosen in the end, Go's
\* select being random among the ready cases (lines 118-119); the timer of a
\* probe fires (lines 190, 206, 215); the goroutine of keepAliveSingleFlight
\* runs when it can (lines 154-163); SendRequest returns once the client is
\* closed (line 157)
LoopFairness ==
    /\ WF_vars(keepAliveLoop_Top /\ UNCHANGED timeVars)
    /\ SF_vars(keepAliveLoop_WaitDone /\ UNCHANGED timeVars)
    /\ WF_vars((\E tk \in Tooks : sendKeepAliveRequest_Timer(tk)) /\ UNCHANGED timeVars)
    /\ WF_vars(keepAliveSingleFlight_Exit /\ UNCHANGED timeVars)
    /\ WF_vars(/\ loopCloses > 0
               /\ \E e \in SendRequestResults : keepAliveSingleFlight_Return(e)
               /\ UNCHANGED timeVars)

\* keepAliveLoop on one client under that scheduling
SpecLoopFair == SpecLoop /\ LoopFairness

\* ------------------------------------------- keepAliveLoop with a clock
\* Time is counted in units of 5ms.  The server acknowledges every request,
\* `stall` after SendRequest was called; no traffic is read and the client
\* does not terminate.  A goroutine that can run does so at once or up to
\* MaxLatency later.

\* ServerAliveLagMax values given, in units of 5ms: 5ms and 2s
Lags == {1, 400}

\* some goroutine of the engine can take a step now
Runnable ==
    \/ loop = "top"
    \/ loop = "select" /\ tickBuf
    \/ loop = "probe" /\ flight = "idle"
    \/ loop \in {"probe", "sent"} /\ (timerIn = 0 \/ flight = "ready")
    \/ flight = "busy" /\ replyIn = 0

\* a goroutine has run: the clock did not move
Ran ==
    /\ lat' = 0
    /\ UNCHANGED <<interval, stall, delayed>>

\* lines 127, 147: `ticker.Reset(config.serverAliveInterval)` when the probe
\* returned nil (go 1.24: no tick of the old period is left in ticker.C)
TickerReset ==
    IF loop' = "top" /\ ~hadTimeout'
       THEN tickIn' = interval /\ tickBuf' = FALSE
       ELSE UNCHANGED <<tickIn, tickBuf>>

\* 5ms pass; the ticker (line 94) and the probe's timer (line 191) run down
Timed_Advance ==
    /\ loop \notin {"off", "done"}
    /\ Runnable => lat < MaxLatency
    /\ lat' = IF Runnable THEN lat + 1 ELSE 0
    /\ delayed' = (delayed \/ Runnable)
    /\ tickIn' = IF tickIn = 1 THEN interval ELSE tickIn - 1
    /\ tickBuf' = (tickBuf \/ tickIn = 1)
    /\ timerIn' = IF timerIn > 0 THEN timerIn - 1 ELSE timerIn
    /\ replyIn' = IF replyIn > 0 THEN replyIn - 1 ELSE replyIn
    /\ since' = IF loop \in {"probe", "sent"} THEN since + 1 ELSE since
    /\ UNCHANGED <<interval, stall>>
    /\ UNCHANGED loopVars
    /\ LoopFrame

\* line 94: `ticker := time.NewTicker(config.serverAliveInterval)`, and the
\* start of the loop
Timed_Start(i, cm, t, l, st) ==
    /\ keepAliveLoop_Start(i, cm, t, l)
    /\ interval' = i
    /\ stall' = st
    /\ tickIn' = i
    /\ UNCHANGED <<tickBuf, timerIn, replyIn, since, lat, delayed>>

Timed_Top ==
    /\ keepAliveLoop_Top
    /\ UNCHANGED <<tickIn, tickBuf, timerIn, replyIn, since>>
    /\ Ran

\* line 123: `case <-ticker.C`; lines 190-191: `start := time.Now(); timer :=
\* time.NewTimer(timeout)`
Timed_Tick ==
    /\ tickBuf
    /\ keepAliveLoop_Tick
    /\ tickBuf' = FALSE
    /\ IF loop' = "probe"
          THEN timerIn' = config.timeout /\ since' = 0
          ELSE UNCHANGED <<timerIn, since>>
    /\ UNCHANGED <<tickIn, replyIn>>
    /\ Ran

\* line 157: SendRequest is called
Timed_Send ==
    /\ sendKeepAliveRequest_Send
    /\ replyIn' = stall
    /\ UNCHANGED <<tickIn, tickBuf, timerIn, since>>
    /\ Ran

\* line 157: SendRequest returns the acknowledgement
Timed_Return ==
    /\ replyIn = 0
    /\ keepAliveSingleFlight_Return("nil")
    /\ replyIn' = -1
    /\ UNCHANGED <<tickIn, tickBuf, timerIn, since>>
    /\ Ran

\* lines 206-207, 215-216: the timer has fired; `took := time.Since(start)`
Timed_Timer ==
    /\ timerIn = 0
    /\ sendKeepAliveRequest_Timer(since)
    /\ timerIn' = -1
    /\ TickerReset
    /\ UNCHANGED <<replyIn, since>>
    /\ Ran

\* lines 208-209, 217-220: the result is taken from resp; `defer timer.Stop()`
Timed_Resp ==
    /\ sendKeepAliveRequest_Resp
    /\ timerIn' = -1
    /\ TickerReset
    /\ UNCHANGED <<replyIn, since>>
    /\ Ran

NextTimed ==
    \/ \E i \in 1..MaxTicks : \E cm \in 0..MaxCountMax :
           \E t \in 1..MaxTicks : \E l \in Lags : \E st \in 1..MaxStall :
               Timed_Start(i, cm, t, l, st)
    \/ Timed_Advance
    \/ Timed_Top
    \/ Timed_Tick
    \/ Timed_Send
    \/ Timed_Return
    \/ Timed_Timer
    \/ Timed_Resp

\* one keepAliveLoop against a server that acknowledges every request late
SpecTimed == Init /\ [][NextTimed]_vars

\* ------------------------------------------------------------ sshDialCtx
\* everything outside sshDialCtx and the goroutine it starts
SdFrame ==
    /\ UNCHANGED poolVars
    /\ UNCHANGED procVars
    /\ UNCHANGED histVars
    /\ UNCHANGED dialVars
    /\ UNCHANGED connVars
    /\ UNCHANGED <<kaOnce, engines, kaExited>>
    /\ UNCHANGED loopVars
    /\ UNCHANGED timeVars
    /\ UNCHANGED cacheVars

\* the context given to sshDialCtx is cancelled, at any time
Ctx_Cancel(p) ==
    /\ ~ctxDone[p]
    /\ ctxDone' = Set(ctxDone, p, TRUE)
    /\ UNCHANGED <<sdCall, sdGo, withConn, clientRes, sdRet, clientCloses, nConnCloses>>
    /\ SdFrame

\* part_005:153-186 (wc) and dial.go:110-129: `if err := ctx.Err(); err != nil
\* { return nil, err }`; with wc the connection is dialled (dialOk) and wrapped
\* in nConn, an error of the dial being returned; the goroutine is started and
\* the caller enters its select
sshDialCtx_Start(p, wc, dialOk) ==
    /\ sdCall[p] = "off"
    /\ withConn' = Set(withConn, p, wc)
    /\ IF ctxDone[p]
          THEN /\ sdCall' = Set(sdCall, p, "ret")
               /\ sdRet' = Set(sdRet, p, "ctxErr")
               /\ UNCHANGED sdGo
          ELSE IF wc /\ ~dialOk
          THEN /\ sdCall' = Set(sdCall, p, "ret")
               /\ sdRet' = Set(sdRet, p, "err")
               /\ UNCHANGED sdGo
          ELSE /\ sdCall' = Set(sdCall, p, "select")
               /\ sdGo' = Set(sdGo, p, "handshake")
               /\ UNCHANGED sdRet
    /\ UNCHANGED <<ctxDone, clientRes, clientCloses, nConnCloses>>
    /\ SdFrame

\* part_005:178 and dial.go:120: `client, err := sshNewClient(nConn, addr,
\* config)` / `sshDial(ctx, addr, config)` returns in the goroutine; no client
\* is established on a connection that was closed before
sshNewClient_Returns(p, ok) ==
    /\ sdGo[p] = "handshake"
    /\ ok => nConnCloses[p] = 0
    /\ clientRes' = Set(clientRes, p, IF ok THEN "client" ELSE "err")
    /\ sdGo' = Set(sdGo, p, "select")
    /\ UNCHANGED <<sdCall, ctxDone, withConn, sdRet, clientCloses, nConnCloses>>
    /\ SdFrame

\* part_005:180, 191-198 and dial.go:122, 134-135: the goroutine's send on the
\* unbuffered channel meets the caller's receive: with an error the caller
\* closes nConn (part_005) and returns the error, else it returns the client
sshDialCtx_Receive(p) ==
    /\ sdGo[p] = "select"
    /\ sdCall[p] = "select"
    /\ sdGo' = Set(sdGo, p, "end")
    /\ sdCall' = Set(sdCall, p, "ret")
    /\ sdRet' = Set(sdRet, p, clientRes[p])
    /\ nConnCloses' = IF withConn[p] /\ clientRes[p] = "err"
                         THEN Set(nConnCloses, p, nConnCloses[p] + 1)
                         ELSE nConnCloses
    /\ UNCHANGED <<ctxDone, withConn, clientRes, clientCloses>>
    /\ SdFrame

\* a goroutine that leaves the client open on cancellation
GoClosesNever(r) == FALSE

\* part_005:182 and dial.go:124: `if client != nil`
GoCloses(r) == r = "client"

\* part_005:181-184 and dial.go:123-126: `case <-ctx.Done(): if client != nil
\* { _ = client.Close() }` in the goroutine
sshDialCtx_GoCtxDone(p) ==
    /\ sdGo[p] = "select"
    /\ ctxDone[p]
    /\ sdGo' = Set(sdGo, p, "end")
    /\ clientCloses' = IF GoCloses(clientRes[p])
                          THEN Set(clientCloses, p, clientCloses[p] + 1)
                          ELSE clientCloses
    /\ UNCHANGED <<sdCall, ctxDone, withConn, clientRes, sdRet, nConnCloses>>
    /\ SdFrame

\* part_005:188-190 and dial.go:131-133: `case <-ctx.Done(): _ = nConn.Close();
\* return nil, ctx.Err()` in the caller (no nConn in dial.go)
sshDialCtx_CtxDone(p) ==
    /\ sdCall[p] = "select"
    /\ ctxDone[p]
    /\ sdCall' = Set(sdCall, p, "ret")
    /\ sdRet' = Set(sdRet, p, "ctxErr")
    /\ nConnCloses' = IF withConn[p] THEN Set(nConnCloses, p, nConnCloses[p] + 1)
                                     ELSE nConnCloses
    /\ UNCHANGED <<sdGo, ctxDone, withConn, clientRes, clientCloses>>
    /\ SdFrame

NextSshDial ==
    \E p \in Procs :
        \/ Ctx_Cancel(p)
        \/ \E wc \in BOOLEAN : \E dialOk \in BOOLEAN : sshDialCtx_Start(p, wc, dialOk)
        \/ \E ok \in BOOLEAN : sshNewClient_Returns(p, ok)
        \/ sshDialCtx_Receive(p)
        \/ sshDialCtx_GoCtxDone(p)
        \/ sshDialCtx_CtxDone(p)

\* concurrent calls of sshDialCtx, each with a context of its own
SpecSshDial == Init /\ [][NextSshDial]_vars

\* the goroutine of each call runs when it can (Go's scheduler)
SshDialFairness ==
    \A p \in Procs : WF_vars(sshDialCtx_Receive(p) \/ sshDialCtx_GoCtxDone(p))

\* calls of sshDialCtx under that scheduling
SpecSshDialFair == SpecSshDial /\ SshDialFairness

\* ------------------------------- the tunnel cache with singleflight (dial.go)
\* everything outside the tunnel cache and its callers
CacheFrame ==
    /\ UNCHANGED poolVars
    /\ UNCHANGED procVars
    /\ UNCHANGED histVars
    /\ UNCHANGED dialVars
    /\ UNCHANGED connVars
    /\ UNCHANGED <<kaOnce, engines, kaExited>>
    /\ UNCHANGED loopVars
    /\ UNCHANGED timeVars
    /\ UNCHANGED sdVars

\* the positions of a Close made by getSshTunnel itself (dial.go:265-267),
\* after which it starts over
Retrying == {"close_r", "try_close_r", "client_close_r"}

\* where a goroutine goes when its Close is over: back into getSshTunnel's
\* loop, or out of DialContext / tunnelCon.Close
After(p) == IF tpc[p] \in Retrying THEN "g_top" ELSE "idle"

\* dial.go:20-32: DialContext is called and enters getSshTunnel
Cache_DialContext(p) ==
    /\ tpc[p] = "idle"
    /\ tpc' = Set(tpc, p, "g_top")
    /\ UNCHANGED <<cache, tuns, nTun, ttun, sf, sfTun, crits>>
    /\ CacheFrame

\* dial.go:217-219: `if err := ctx.Err(); err != nil { return nil, err }`
getSshTunnel_CtxErr(p) ==
    /\ tpc[p] = "g_top"
    /\ tpc' = Set(tpc, p, "idle")
    /\ ttun' = Set(ttun, p, Nil)
    /\ UNCHANGED <<cache, tuns, nTun, sf, sfTun, crits>>
    /\ CacheFrame

\* dial.go:221-223 and cachedSshTunnel(ctx, conf, true), lines 277-295, one
\* critical section: a cached tunnel gets `tun.users.Add(1)` and is returned;
\* else the caller goes on to tunnelCache.group.Do
getSshTunnel_Cached(p) ==
    /\ tpc[p] = "g_top"
    /\ IF cache # Nil /\ ~tuns[cache].closed
          THEN /\ tuns' = [tuns EXCEPT ![cache].users = @ + 1]
               /\ ttun' = Set(ttun, p, cache)
               /\ tpc' = Set(tpc, p, "have")
               /\ UNCHANGED crits
          ELSE /\ crits' = IF cache # Nil THEN crits \cup {"critClosedTunnelInCache"}
                                          ELSE crits
               /\ tpc' = Set(tpc, p, "sf_join")
               /\ UNCHANGED <<tuns, ttun>>
    /\ UNCHANGED <<cache, nTun, sf, sfTun>>
    /\ CacheFrame

\* dial.go:225: `tunnelCache.group.Do(ctx, tunKey, fn)`: the caller starts
\* the call of fn if none is in flight for the key, and waits for its result
group_Do(p) ==
    /\ tpc[p] = "sf_join"
    /\ sf' = IF sf = "none" THEN "check" ELSE sf
    /\ tpc' = Set(tpc, p, "sf_wait")
    /\ UNCHANGED <<cache, tuns, nTun, ttun, sfTun, crits>>
    /\ CacheFrame

\* dial.go:225, 248-250: Do returns the context's error to a caller whose
\* context is cancelled while it waits
group_DoCancelled(p) ==
    /\ tpc[p] = "sf_wait"
    /\ tpc' = Set(tpc, p, "idle")
    /\ ttun' = Set(ttun, p, Nil)
    /\ UNCHANGED <<cache, tuns, nTun, sf, sfTun, crits>>
    /\ CacheFrame

\* the call in flight returns t (Nil with an error): every caller waiting in
\* Do receives it
Deliver(t) ==
    /\ sf' = "none"
    /\ sfTun' = Nil
    /\ tpc' = [p \in Procs |-> IF tpc[p] = "sf_wait" THEN "sf_got" ELSE tpc[p]]
    /\ ttun' = [p \in Procs |-> IF tpc[p] = "sf_wait" THEN t ELSE ttun[p]]

\* dial.go:228-230: fn's `cachedSshTunnel(ctx, conf, false)`: a cached
\* tunnel is returned with users unchanged
Flight_Check ==
    /\ sf = "check"
    /\ IF cache # Nil /\ ~tuns[cache].closed
          THEN /\ Deliver(cache)
               /\ UNCHANGED crits
          ELSE /\ sf' = "create"
               /\ crits' = IF cache # Nil THEN crits \cup {"critClosedTunnelInCache"}
                                          ELSE crits
               /\ UNCHANGED <<tpc, ttun, sfTun>>
    /\ UNCHANGED <<cache, tuns, nTun>>
    /\ CacheFrame

\* dial.go:234-237: `tun, err := newSshTunnel(ctx, conf)`
Flight_Create(ok) ==
    /\ sf = "create"
    /\ ok => nTun < MaxTuns
    /\ IF ok
          THEN /\ nTun' = nTun + 1
               /\ sfTun' = nTun + 1
               /\ sf' = "store"
               /\ UNCHANGED <<tpc, ttun>>
          ELSE /\ Deliver(Nil)
               /\ UNCHANGED nTun
    /\ UNCHANGED <<cache, tuns, crits>>
    /\ CacheFrame

\* dial.go:240-245: `critNoDuplicateKey; tunnelCache.cache[tunKey] = tun`
\* under the mutex, and fn returns the tunnel
Flight_Store ==
    /\ sf = "store"
    /\ crits' = IF cache # Nil THEN crits \cup {"critNoDuplicateKey"} ELSE crits
    /\ cache' = sfTun
    /\ Deliver(sfTun)
    /\ UNCHANGED <<tuns, nTun>>
    /\ CacheFrame

\* a getSshTunnel that does not look at the closed flag of a shared result
SharedClosedIgnored(t) == FALSE

\* dial.go:256: `if tun.closed`
SharedClosed(t) == tuns[t].closed

\* dial.go:248-274: Do has returned: an error is returned to the caller;
\* else, under the mutex, a closed tunnel makes the loop start over, an open
\* one gets `tun.users.Add(1)` and is returned (users <= 0 after that:
\* critTunnelNegUsers, `tun.Close()` and start over)
getSshTunnel_Got(p) ==
    /\ tpc[p] = "sf_got"
    /\ IF ttun[p] = Nil
          THEN /\ tpc' = Set(tpc, p, "idle")
               /\ UNCHANGED <<tuns, ttun, crits>>
          ELSE IF SharedClosed(ttun[p])
          THEN /\ tpc' = Set(tpc, p, "g_top")
               /\ ttun' = Set(ttun, p, Nil)
               /\ UNCHANGED <<tuns, crits>>
          ELSE /\ tuns' = [tuns EXCEPT ![ttun[p]].users = @ + 1]
               /\ IF tuns[ttun[p]].users + 1 <= 0
                     THEN /\ crits' = crits \cup {"critTunnelNegUsers"}
                          /\ tpc' = Set(tpc, p, "close_r")
                     ELSE /\ crits' = crits
                          /\ tpc' = Set(tpc, p, "have")
               /\ UNCHANGED ttun
    /\ UNCHANGED <<cache, nTun, sf, sfTun>>
    /\ CacheFrame

\* dial.go:34-41: `sshTun.sshClient.DialContext(...)`: on success the
\* tunnelCon is returned, on an error `_ = sshTun.Close()`
Cache_SubDial(p, ok) ==
    /\ tpc[p] = "have"
    /\ tpc' = Set(tpc, p, IF ok THEN "conn" ELSE "close")
    /\ UNCHANGED <<cache, tuns, nTun, ttun, sf, sfTun, crits>>
    /\ CacheFrame

\* dial.go:160-166: tunnelCon.Close: `t.Conn.Close()`, and once
\* `t.tunnel.Close()`
tunnelCon_Close(p) ==
    /\ tpc[p] = "conn"
    /\ tpc' = Set(tpc, p, "close")
    /\ UNCHANGED <<cache, tuns, nTun, ttun, sf, sfTun, crits>>
    /\ CacheFrame

\* dial.go:186-193: sshTunnel.Close: `users := t.users.Add(-1); if users > 0
\* { return nil }`, no mutex held
sshTunnel_Close(p) ==
    /\ tpc[p] \in {"close", "close_r"}
    /\ tuns' = [tuns EXCEPT ![ttun[p]].users = @ - 1]
    /\ IF tuns[ttun[p]].users - 1 > 0
          THEN /\ tpc' = Set(tpc, p, After(p))
               /\ ttun' = Set(ttun, p, Nil)
          ELSE /\ tpc' = Set(tpc, p, IF tpc[p] = "close_r" THEN "try_close_r" ELSE "try_close")
               /\ UNCHANGED ttun
    /\ UNCHANGED <<cache, nTun, sf, sfTun, crits>>
    /\ CacheFrame

\* debug.go:22-39: critUsersEqZero, critNotClosed, critInCache on tunnel t
CritsOf(t) ==
    (IF tuns[t].users # 0 THEN {"critUsersEqZero"} ELSE {})
    \cup (IF tuns[t].closed THEN {"critNotClosed"} ELSE {})
    \cup (IF cache = Nil THEN {"critInCache"} ELSE {})

\* dial.go:297-311: tryCloseSshTunnel under the mutex: `if users > 0
\* { return nil }`; the three assertions; `t.closed = true;
\* delete(tunnelCache.cache, t.key)`
tryCloseSshTunnel(p) ==
    /\ tpc[p] \in {"try_close", "try_close_r"}
    /\ IF tuns[ttun[p]].users > 0
          THEN /\ tpc' = Set(tpc, p, After(p))
               /\ ttun' = Set(ttun, p, Nil)
               /\ UNCHANGED <<cache, tuns, crits>>
          ELSE /\ crits' = crits \cup CritsOf(ttun[p])
               /\ tuns' = [tuns EXCEPT ![ttun[p]].closed = TRUE]
               /\ cache' = Nil
               /\ tpc' = Set(tpc, p, IF tpc[p] = "try_close_r" THEN "client_close_r"
                                                                ELSE "client_close")
               /\ UNCHANGED ttun
    /\ UNCHANGED <<nTun, sf, sfTun>>
    /\ CacheFrame

\* dial.go:313: `return t.sshClient.Close()`
Cache_ClientClose(p) ==
    /\ tpc[p] \in {"client_close", "client_close_r"}
    /\ tuns' = [tuns EXCEPT ![ttun[p]].closes = @ + 1]
    /\ tpc' = Set(tpc, p, After(p))
    /\ ttun' = Set(ttun, p, Nil)
    /\ UNCHANGED <<cache, nTun, sf, sfTun, crits>>
    /\ CacheFrame

NextCache ==
    \/ \E p \in Procs :
          \/ Cache_DialContext(p)
          \/ getSshTunnel_CtxErr(p)
          \/ getSshTunnel_Cached(p)
          \/ group_Do(p)
          \/ group_DoCancelled(p)
          \/ getSshTunnel_Got(p)
          \/ \E ok \in BOOLEAN : Cache_SubDial(p, ok)
          \/ tunnelCon_Close(p)
          \/ sshTunnel_Close(p)
          \/ tryCloseSshTunnel(p)
          \/ Cache_ClientClose(p)
    \/ Flight_Check
    \/ \E ok \in BOOLEAN : Flight_Create(ok)
    \/ Flight_Store

\* concurrent DialContext and Close calls over the singleflight tunnel cache
SpecCache == Init /\ [][NextCache]_vars

\* ================================================================ claims
Allocated == 1..nEnt

\* the constructor invocations made so far for key k: one per published entry
CtorCalls(k) == Cardinality({e \in Allocated : entries[e].key = k})

\* the goroutines whose constructor invocation for key k is in progress
Constructing(k) == {p \in Procs : pc[p] = "ctor" /\ key[p] = k}

\* goroutine p holds a counted reference to tunnel h that it has not released
Holder(p, h) ==
    \/ pc[p] \in {"acq_ret", "rel_lock", "rel_body", "fgt_lock", "fgt_body"} /\ value[p] = h
    \/ pc[p] \in {"close_done", "acq_return"} /\ ent[p] = h /\ entries[h].val = h

\* goroutine p still has work to do on tunnel h
Engaged(p, h) ==
    \/ Holder(p, h)
    \/ pc[p] \in {"rel_close", "fgt_close"} /\ value[p] = h

\* forget has been called on tunnel h
ForgetCalled(h) ==
    \/ forgot[h]
    \/ \E q \in Procs : pc[q] \in {"fgt_lock", "fgt_body", "fgt_close"} /\ value[q] = h

\* C1: at most one constructor invocation per key is in progress at any
\* moment; the constructing caller's entry is the one published under the key
\* and its done signal has not fired, so every caller that finds it waits.
C1_OneConstructorPerKey ==
    \A k \in Keys :
        /\ Cardinality(Constructing(k)) <= 1
        /\ \A p \in Constructing(k) :
              /\ m[k] = ent[p]
              /\ ~entries[ent[p]].done
              /\ \A q \in Procs \ {p} : pc[q] \in {"post_ctor", "del_lock", "del_body"} => key[q] # k

\* a caller waits on the entry another caller is constructing
C1_Witness ==
    \E p, q \in Procs :
        /\ pc[p] = "ctor"
        /\ pc[q] = "wait"
        /\ ent[q] = ent[p]

\* C2 as stated: concurrent acquire calls with one key invoke the constructor
\* exactly once and all get the same client.
C2_Original ==
    batch # "broken" =>
        \A k \in Keys : CtorCalls(k) <= 1 /\ Cardinality(retVals) <= 1

\* no entry has been evicted: no constructor failed, no release or forget removed one
NoEviction == \A e \in Allocated : ~entries[e].removed /\ evictedBy[e] = "none"

\* C2 amended: concurrent acquire calls with one key, as long as no entry of
\* the key is evicted, invoke the constructor at most once, and every caller
\* that gets a client gets the client of that one entry.
C2_OnceWhileNotEvicted ==
    (batch # "broken" /\ NoEviction) =>
        \A k \in Keys :
            /\ CtorCalls(k) <= 1
            /\ Cardinality(retVals) <= 1
            /\ \A p \in Procs :
                  (pc[p] = "acq_ret" /\ err[p] = "nil" /\ key[p] = k) =>
                      /\ value[p] # Nil
                      /\ value[p] = entries[m[k]].val
                      /\ retVals = {value[p]}

\* two concurrent callers have both returned with the one client
C2_Witness ==
    /\ batch = "returning"
    /\ NoEviction
    /\ \E p, q \in Procs :
          /\ p # q
          /\ pc[p] = "acq_ret" /\ pc[q] = "acq_ret"
          /\ err[p] = "nil" /\ err[q] = "nil"
          /\ value[p] = value[q]

\* C3 as stated: Close is invoked at most once on every client of the pool.
C3_CloseAtMostOnce == \A h \in Ents : closeCount[h] <= 1

\* C4 as stated: a release of a tunnel that forget has evicted does not call Close.
C4_StaleReleaseDoesNotClose ==
    [][\A p \in Procs :
          (pc[p] = "rel_close" /\ pc'[p] = "rel_ret" /\ evictedBy[value[p]] = "forget")
              => closeCount' = closeCount]_vars

\* C5: the tryRelease or tryForget of a tunnel whose entry is already evicted
\* changes neither the map nor any entry.
C5_StaleFrame ==
    [][\A p \in Procs :
          (pc[p] \in {"rel_body", "fgt_body"} /\ pc'[p] # pc[p] /\ entries[value[p]].removed)
              => (m' = m /\ entries' = entries)]_vars

\* a stale release has gone through while a newer entry of the key is in construction
C5_Witness ==
    \E p \in Procs : \E k \in Keys :
        /\ pc[p] = "rel_close"
        /\ entries[value[p]].removed
        /\ Has(k)
        /\ m[k] # value[p]
        /\ entries[m[k]].key = TunnelKey(value[p])
        /\ entries[m[k]].val = Nil
        /\ entries[m[k]].refCount = 0

\* C6: no reference count is ever negative.
C6_RefCountNonNegative == \A e \in Ents : entries[e].refCount >= 0

\* the last of two holders has released: the count went 2, 1, 0
C6_Witness ==
    \E p, q \in Procs :
        /\ p # q
        /\ pc[p] = "rel_ret" /\ ~last[p]
        /\ pc[q] = "rel_close" /\ last[q]
        /\ value[p] = value[q]
        /\ entries[value[q]].refCount = 0

\* C7: a client on which forget is never called is not closed while a
\* goroutine holds an unreleased reference to it.
C7_NotClosedWhileHeld ==
    \A h \in Allocated :
        (~ForgetCalled(h) /\ \E p \in Procs : Holder(p, h)) => closeCount[h] = 0

\* one of two holders has released, the other still holds the open client
C7_Witness ==
    \E p, q \in Procs :
        /\ p # q
        /\ pc[q] = "rel_ret" /\ ~last[q]
        /\ Holder(p, value[q])
        /\ ~ForgetCalled(value[q])
        /\ closeCount[value[q]] = 0

\* a release of tunnel h is about to close its client, or a Close was called
ClosedOrClosing(h) ==
    \/ closeCount[h] >= 1
    \/ \E p \in Procs : pc[p] \in {"rel_close", "fgt_close"} /\ value[p] = h

\* C8: the release that brings the count to zero removes the entry and goes on
\* to close the client; once nobody has work left on a constructed tunnel, it
\* is out of the map and its client has been closed.
C8_LastReleaseCloses ==
    \A h \in Allocated :
        entries[h].val = h =>
            /\ entries[h].refCount = 0 =>
                  /\ entries[h].removed
                  /\ m[TunnelKey(h)] # h
                  /\ evictedBy[h] = "release"
                  /\ ClosedOrClosing(h)
            /\ (\A p \in Procs : ~Engaged(p, h)) =>
                  /\ m[TunnelKey(h)] # h
                  /\ closeCount[h] >= 1

\* both holders of a tunnel have released and its client is closed
C8_Witness ==
    \E h \in Allocated :
        /\ entries[h].val = h
        /\ evictedBy[h] = "release"
        /\ entries[h].refCount = 0
        /\ \A p \in Procs : ~Engaged(p, h)
        /\ closeCount[h] = 1
        /\ \E p \in Procs : pc[p] = "rel_ret" /\ value[p] = h /\ last[p]

C10_RetryOnce ==
    \A p \in Procs :
        /\ attempt[p] <= 2
        /\ Len(tried[p]) <= attempt[p]
        /\ attempt[p] = 2 =>
              /\ Len(tried[p]) >= 1
              /\ tried[p][1].res = "fail"
              /\ forgot[tried[p][1].h]
        /\ (Len(tried[p]) >= 1 /\ tried[p][1].res = "fail"
              /\ pc[p] \notin {"fgt_lock", "fgt_body", "fgt_close", "fgt_ret"}) => attempt[p] = 2
        /\ (Len(tried[p]) >= 1 /\ tried[p][1].res # "fail") => attempt[p] = 1
        /\ (Len(tried[p]) = 2 /\ tried[p][2].res = "ok") =>
              /\ pc[p] \in {"conn", "rel_lock", "rel_body", "rel_close", "rel_ret", "closed"}
              /\ pc[p] # "closed" => result[p] = <<>>
              /\ attempt[p] = 2
              /\ tried[p][2].h # tried[p][1].h
              /\ value[p] = tried[p][2].h

\* a DialContext whose first sub-dial failed holds the connection of its second
C10_Witness ==
    \E p \in Procs :
        /\ pc[p] = "conn"
        /\ attempt[p] = 2
        /\ Len(tried[p]) = 2
        /\ tried[p][1].res = "fail"
        /\ tried[p][2].res = "ok"

\* goroutine p is in a DialContext whose last sub-dial ended with the context's error
OnCancelPath(p) == Len(tried[p]) >= 1 /\ tried[p][Len(tried[p])].res = "ctxErr"

\* C11: when the sub-dial fails with the context's error, DialContext calls
\* release and not forget on the tunnel, makes no further attempt and returns
\* the context's error; and that release, when the tunnel is still stored with
\* other references left, only decrements: the entry stays in the map, not
\* removed, and no Close is called.
C11_CancelReleases ==
    /\ [](\A p \in Procs :
             OnCancelPath(p) =>
                 /\ pc[p] \in {"rel_lock", "rel_body", "rel_close", "rel_ret", "dial_ret"}
                 /\ result[p] = <<"ctxErr">>
                 /\ attempt[p] = Len(tried[p])
                 /\ value[p] = tried[p][Len(tried[p])].h)
    /\ [][\A p \in Procs :
             (OnCancelPath(p) /\ pc[p] = "rel_body" /\ pc'[p] # pc[p]
                 /\ m[TunnelKey(value[p])] = value[p] /\ entries[value[p]].refCount > 1)
                 => /\ m' = m
                    /\ ~entries'[value[p]].removed
                    /\ entries'[value[p]].refCount = entries[value[p]].refCount - 1
                    /\ closeCount' = closeCount
                    /\ pc'[p] = "rel_ret"]_vars

\* a cancelled DialContext has released a tunnel that another goroutine still
\* holds: the tunnel is in the map and its client is open
C11_Witness ==
    \E p \in Procs :
        /\ OnCancelPath(p)
        /\ pc[p] = "dial_ret"
        /\ ~last[p]
        /\ m[TunnelKey(value[p])] = value[p]
        /\ entries[value[p]].refCount >= 1
        /\ closeCount[value[p]] = 0
        /\ \E q \in Procs \ {p} : pc[q] = "conn" /\ value[q] = value[p]

\* both sub-dials of goroutine p's DialContext failed with non-context errors
BothFailed(p) ==
    /\ Len(tried[p]) = 2
    /\ tried[p][1].res = "fail"
    /\ tried[p][2].res = "fail"

\* C12: when both attempts fail with non-context sub-dial errors, DialContext
\* returns no connection, and the error it returns is the second attempt's
\* error under the package's prefix.
C12_LastErrorWrapped ==
    \A p \in Procs :
        BothFailed(p) =>
            /\ pc[p] \in {"fgt_lock", "fgt_body", "fgt_close", "fgt_ret", "dial_ret"}
            /\ pc[p] = "dial_ret" => result[p] = <<"mytunnel/dial", "subdialErr", "second">>

\* a DialContext has returned after two failed sub-dials on two tunnels
C12_Witness ==
    \E p \in Procs :
        /\ BothFailed(p)
        /\ pc[p] = "dial_ret"
        /\ tried[p][1].h # tried[p][2].h

\* the connections over tunnel h on which no Close call has entered the latch
OpenConns(h) == {o \in Procs : once[o] = "new" /\ value[o] = h}

\* C13: however many Close calls are made on a connection, from one goroutine
\* or several, its release is called exactly once, by the first of them; the
\* tunnel's count therefore never drops below the number of connections over
\* it that are still unclosed.
C13_ReleaseOnce ==
    /\ \A o \in Procs :
          /\ relCalls[o] <= 1
          /\ once[o] \in {"running", "done"} <=> relCalls[o] = 1
    /\ \A h \in Allocated :
          entries[h].val = h => entries[h].refCount >= Cardinality(OpenConns(h))

\* a connection has been closed twice while another connection over the same
\* tunnel is open: one reference is left and the client is open
C13_Witness ==
    \E o, o2 \in Procs :
        /\ o # o2
        /\ reclosed[o]
        /\ once[o] = "done"
        /\ pc[o] = "closed"
        /\ relCalls[o] = 1
        /\ once[o2] = "new"
        /\ value[o2] = value[o]
        /\ entries[value[o]].refCount = 1
        /\ m[TunnelKey(value[o])] = value[o]
        /\ closeCount[value[o]] = 0

\* C14: a Close call that has returned has closed the sub-connection, the
\* release of the connection has run, whether or not the sub-connection's close
\* failed, and the call returned the errors of both, neither hiding the other.
C14_CloseJoinsBoth ==
    \A q \in Procs :
        pc[q] = "closed" =>
            LET o == target[q] IN
            /\ once[o] = "done"
            /\ relCalls[o] = 1
            /\ (err1[q] = "nil" /\ closeErr[o] = "nil") => result[q] = <<>>
            /\ (err1[q] # "nil" /\ closeErr[o] = "nil") => result[q] = <<err1[q]>>
            /\ (err1[q] = "nil" /\ closeErr[o] # "nil") => result[q] = <<closeErr[o]>>
            /\ (err1[q] # "nil" /\ closeErr[o] # "nil") => result[q] = <<err1[q], closeErr[o]>>

\* the sub-connection's close failed, the release still ran and failed too, and
\* Close returned both errors
C14_Witness ==
    \E q \in Procs :
        /\ pc[q] = "closed"
        /\ target[q] = q
        /\ err1[q] = "connErr"
        /\ last[q]
        /\ closeCount[value[q]] = 1
        /\ closeErr[q] = "closeErr"
        /\ result[q] = <<"connErr", "closeErr">>

\* C15: the keep-alive engine is started at most once on a pooled client,
\* however many DialContext calls succeed on its tunnel, and only by a
\* successful DialContext on that tunnel: at most one keepAliveLoop per
\* tunnel, one exactly when the latch has fired, and a step that starts one
\* is a successful sub-dial over that tunnel with the latch not yet fired.
C15_EngineOnce ==
    /\ [](\A h \in Ents :
            /\ engines[h] <= 1
            /\ engines[h] = 1 <=> kaOnce[h]
            /\ kaExited[h] => engines[h] = 1
            /\ engines[h] = 1 => h \in Allocated /\ entries[h].val = h)
    /\ [][\A h \in Ents :
            engines'[h] # engines[h] =>
                /\ ~kaOnce[h]
                /\ \E p \in Procs :
                       /\ pc[p] = "acq_ret" /\ pc'[p] = "conn"
                       /\ value[p] = h]_vars

\* two connections returned by DialContext are open over one tunnel; one
\* engine has been started on its client
C15_Witness ==
    \E p \in Procs : \E q \in Procs \ {p} :
        /\ pc[p] = "conn" /\ pc[q] = "conn"
        /\ value[p] = value[q]
        /\ kaOnce[value[p]]
        /\ engines[value[p]] = 1

\* the timer of the probe has just fired and handleTimeout measured took'
TimerFired == took = 0 /\ took' > 0

\* C16: as long as every probe has been acknowledged before its timer fired
\* (SendRequest has only ever returned nil) and the client's Wait has not
\* returned, keepAliveLoop has not closed the client and has not stopped.
C16_AckedNeverDead ==
    (loop # "off" /\ allAcked /\ ~waitDone) =>
        /\ loop # "done"
        /\ loopCloses = 0
        /\ misses = 0
        /\ ~hadTimeout
        /\ loop = "select" => serverAliveCounter = config.countMax

\* several probes have been acknowledged and the loop is waiting for the
\* next tick
C16_Witness ==
    /\ loop = "select"
    /\ allAcked
    /\ acked
    /\ ~waitDone
    /\ flight = "idle"
    /\ loopCloses = 0

\* C17: a probe counts as a miss only when its timer fired with took <
\* timeout+lag; misses in a row never exceed ServerAliveCountMax + 1, and at
\* the (ServerAliveCountMax + 1)-th keepAliveLoop has closed the client and
\* stopped.
C17_DeadAfterCountMax ==
    /\ [](/\ misses <= config.countMax + 1
          /\ misses > config.countMax => (loop = "done" /\ loopCloses = 1))
    /\ [][misses' = misses + 1 =>
             /\ TimerFired
             /\ took' >= config.timeout
             /\ took' < config.timeout + config.lag]_vars

\* with ServerAliveCountMax = 3, the default, the fourth miss in a row has
\* closed the client
C17_Witness ==
    /\ config.countMax = serverAliveCountMax
    /\ misses = config.countMax + 1
    /\ loop = "done"
    /\ loopCloses = 1
    /\ ~waitDone

\* C18 as stated: with ServerAliveCountMax = N >= 1, at the N-th miss in a row
\* the client is closed and the loop has stopped.
C18_Original ==
    (loop # "off" /\ config.countMax >= 1 /\ misses >= config.countMax) =>
        (loop = "done" /\ loopCloses >= 1)

\* C18 amended: with ServerAliveCountMax = N, a miss that is at most the N-th
\* in a row leaves the client open and the loop running, and the (N+1)-th
\* closes the client and stops the loop.
C18_DeadAtNext ==
    /\ []((loop # "off" /\ misses >= 1 /\ misses <= config.countMax /\ ~waitDone) =>
             (loop # "done" /\ loopCloses = 0))
    /\ [][misses' = misses + 1 =>
             IF misses' <= config.countMax
                THEN loop' = "top" /\ hadTimeout' /\ loopCloses' = loopCloses
                ELSE loop' = "done" /\ loopCloses' = loopCloses + 1]_vars

\* with ServerAliveCountMax = 2 the loop is waiting for the next tick after two
\* misses in a row, the client still open
C18_Witness ==
    /\ config.countMax = 2
    /\ misses = 2
    /\ loop = "select"
    /\ serverAliveCounter = 0
    /\ loopCloses = 0
    /\ ~waitDone

\* C19: when the keep-alive engine has declared the session dead and closed
\* the client, the tunnel's entry is evicted from the pool, as by forget, and
\* an acquire that looks the key up after the death does not find the dead
\* tunnel's entry.
C19_DeathEvicts ==
    /\ [](\A h \in Ents :
            kaExited[h] =>
                /\ closeCount[h] >= 1
                /\ entries[h].removed
                /\ m[TunnelKey(h)] # h)
    /\ [][\A p \in Procs :
            (pc[p] = "acq_lookup" /\ pc'[p] = "wait") => ~kaExited[ent'[p]]]_vars

\* C20: a timer that fires with took >= timeout+lag is not a miss: the probe
\* returns nil, hadTimeout stays false, the counter is not decremented (the
\* next loop head sets it back to ServerAliveCountMax), and the client is not
\* closed; the counter goes down only after a timeout with took < timeout+lag.
C20_LaggedNotCounted ==
    /\ [][(TimerFired /\ took' >= config.timeout + config.lag) =>
             /\ ~hadTimeout'
             /\ serverAliveCounter' = serverAliveCounter
             /\ misses' = 0
             /\ loop' = "top"
             /\ loopCloses' = loopCloses]_vars
    /\ [][(loop = "top" /\ loop' = "select" /\ ~hadTimeout) =>
             serverAliveCounter' = config.countMax]_vars
    /\ [][serverAliveCounter' < serverAliveCounter =>
             (took > 0 /\ took < config.timeout + config.lag)]_vars

\* after a miss, a timer has fired with took = timeout+lag exactly: the loop is
\* back at its head, not stopped, the counter about to be set back
C20_Witness ==
    /\ loop = "top"
    /\ config.lag >= 1
    /\ took = config.timeout + config.lag
    /\ ~hadTimeout
    /\ serverAliveCounter < config.countMax
    /\ misses = 0
    /\ loopCloses = 0

\* interval = 10ms, timeout = 10ms, lag = 2s, ServerAliveCountMax = 1, and
\* every acknowledgement arrives 15ms after its request, 5ms after the timeout
Scenario21 ==
    /\ loop # "off"
    /\ interval = 2
    /\ config = [countMax |-> 1, timeout |-> 2, lag |-> 400]
    /\ stall = 3

\* C21 as stated: in that scenario keepAliveLoop never closes the client.
C21_Original == Scenario21 => (loop # "done" /\ loopCloses = 0)

\* C21 amended: in that scenario, as long as every goroutine of the engine has
\* run as soon as it could, keepAliveLoop has not closed the client: each
\* timeout is a miss, and the late acknowledgement, taken from resp by the
\* next call of sendKeepAliveRequest before its own timer fires, ends the row
\* of misses at one.
C21_StallSurvives ==
    (Scenario21 /\ ~delayed) =>
        /\ loop # "done"
        /\ loopCloses = 0
        /\ misses <= 1
        /\ took # 0 => took = 2

\* the loop is waiting for a tick after a miss and a late acknowledgement
C21_Witness ==
    /\ Scenario21
    /\ ~delayed
    /\ loop = "select"
    /\ acked
    /\ flight = "idle"
    /\ misses = 0
    /\ serverAliveCounter = 1

\* C22: at most one SendRequest is running at any time; a request is handed
\* to the probe sender only when no SendRequest is running and no result is
\* waiting on resp; and a result that comes after its probe timed out stays on
\* resp until a later call of sendKeepAliveRequest takes it, as long as
\* keepAliveLoop has not returned: the loop sends no request while it waits.
C22_SingleFlight ==
    /\ [](/\ inFlight <= 1
          /\ inFlight = 1 <=> flight = "busy")
    /\ [][inFlight' > inFlight =>
             /\ inFlight = 0
             /\ flight = "idle"
             /\ loop = "probe" /\ loop' = "sent"]_vars
    /\ [][(flight = "ready" /\ flight' # "ready" /\ ~LoopReturned) =>
             /\ loop \in {"select", "probe", "sent"}
             /\ flight' = "idle"
             /\ inFlight' = 0]_vars

\* a probe has timed out, the next tick found nothing on resp and could not
\* hand over a request; the late result has now come and no second
\* SendRequest is running
C22_Witness ==
    /\ loop = "probe"
    /\ misses >= 1
    /\ flight = "ready"
    /\ flightErr = "nil"
    /\ inFlight = 0

\* a result has been taken from resp: by the pre-check of a tick or by the
\* main select of sendKeepAliveRequest
RespTaken == flight = "ready" /\ flight' = "idle"

\* C23: when sendKeepAliveRequest returns io.EOF, keepAliveLoop closes the
\* client and returns in that same step, whatever serverAliveCounter is, and
\* the EOF is not a miss.
C23_EofDead ==
    [][(RespTaken /\ flightErr = "EOF") =>
          /\ loop' = "done"
          /\ loopCloses' = loopCloses + 1
          /\ serverAliveCounter' = serverAliveCounter
          /\ ~hadTimeout'
          /\ misses' = 0]_vars

\* the first probe returned io.EOF with the counter at its maximum of 2: the
\* client is closed and the loop has returned
C23_Witness ==
    /\ loop = "done"
    /\ flight = "idle"
    /\ flightErr = "EOF"
    /\ config.countMax = 2
    /\ serverAliveCounter = 2
    /\ took = 0
    /\ loopCloses = 1
    /\ ~waitDone

\* the loop has taken the signal from readCh
SignalTaken == readCh /\ ~readCh'

\* C24 as stated: when a signal was waiting in readCh as the tick was taken,
\* no request is sent for that tick.
C24_Original == [][inFlight' > inFlight => ~tickSig]_vars

\* C24 amended: a signal in readCh stays there until keepAliveLoop takes it;
\* taking it instead of the tick restarts the ticker with no probe; taking it
\* inside a probe, before or after the request was sent, ends the probe with
\* nil: no miss, hadTimeout false, the ticker restarted, the client not
\* closed, and no request sent by that step.
C24_SignalIsLiveness ==
    /\ []((tickSig /\ loop \in {"probe", "sent"}) => readCh)
    /\ [][SignalTaken =>
             /\ loop \in {"select", "probe", "sent"}
             /\ loop' = "top"
             /\ ~hadTimeout'
             /\ misses' = 0
             /\ fresh'
             /\ loopCloses' = loopCloses
             /\ serverAliveCounter' = serverAliveCounter
             /\ inFlight' = inFlight
             /\ flight' = flight]_vars
    /\ [][(SignalTaken /\ loop = "select") => took' = took]_vars

\* a signal was waiting as the tick was taken; the request was sent all the
\* same, then the signal was taken and the probe ended as alive
C24_Witness ==
    /\ tickSig
    /\ ~readCh
    /\ loop = "top"
    /\ fresh
    /\ took = 0
    /\ inFlight = 1
    /\ misses = 0
    /\ loopCloses = 0

\* C25: once the client's Wait has returned, keepAliveLoop returns in the end,
\* and once keepAliveLoop has returned, the goroutine of keepAliveSingleFlight
\* ends (SendRequest returning once the client is closed).
C25_EngineEnds ==
    /\ waitDone ~> (loop = "done")
    /\ (loop = "done") ~> (flight = "exited")

\* Wait returned while a request was in flight; the loop and the goroutine
\* have both ended
C25_Witness ==
    /\ waitDone
    /\ loop = "done"
    /\ flight = "exited"
    /\ flightErr = "EOF"
    /\ inFlight = 0
    /\ took = 0

\* the caller p of acquire returns the context error from wait
WaitCancelled(p) == pc[p] = "wait" /\ pc'[p] = "acq_ret" /\ err'[p] = "ctxErr"

\* C26: a caller suspended in wait does not hold the pool lock and can return
\* on cancellation whether or not the constructor is done; when it does, it
\* returns the context error and no tunnel, and leaves the lock, the map and
\* every entry, its refCount included, as they were.
C26_CancelledWaiter ==
    /\ [](\A p \in Procs : pc[p] = "wait" =>
             /\ mu # p
             /\ ENABLED wait_Cancelled(p))
    /\ [][\A p \in Procs : WaitCancelled(p) =>
             /\ mu' = mu
             /\ m' = m
             /\ entries' = entries
             /\ closeCount' = closeCount
             /\ value'[p] = Nil
             /\ retVals' = retVals]_vars

\* a waiter has returned the context error while the constructor of the
\* entry it waited for is still running and has recorded no reference
C26_Witness ==
    \E p, q \in Procs :
        /\ pc[p] = "acq_ret"
        /\ err[p] = "ctxErr"
        /\ value[p] = Nil
        /\ pc[q] = "ctor"
        /\ m[key[q]] = ent[q]
        /\ ~entries[ent[q]].done
        /\ entries[ent[q]].refCount = 0

\* the goroutine of p's call holds an established client
Established(p) == clientRes[p] = "client"

\* C27: an established client is never both returned to the caller and closed
\* by the goroutine; once the goroutine has ended it is exactly one of the
\* two; while the goroutine still holds it, either the caller is receiving or
\* the context is cancelled, and in the end the goroutine has delivered or
\* closed it; a call that dialled the connection itself and returns no client
\* has closed that connection.
C27_DeliveredOrClosed ==
    /\ [](\A p \in Procs :
             /\ clientCloses[p] <= 1
             /\ clientCloses[p] = 1 => (Established(p) /\ sdRet[p] # "client")
             /\ sdRet[p] = "client" => (Established(p) /\ clientCloses[p] = 0)
             /\ (Established(p) /\ sdGo[p] = "end") =>
                    (sdRet[p] = "client" \/ clientCloses[p] = 1)
             /\ (Established(p) /\ sdGo[p] = "select") =>
                    (sdCall[p] = "select" \/ ctxDone[p])
             /\ (withConn[p] /\ sdGo[p] # "off" /\ sdCall[p] = "ret"
                    /\ sdRet[p] # "client") => nConnCloses[p] = 1)
    /\ \A p \in Procs :
           Established(p) ~> (sdRet[p] = "client" \/ clientCloses[p] = 1)

\* one call lost its race with the cancellation and its client was closed by
\* the goroutine; another, cancelled as well, was handed its client
C27_Witness ==
    \E p, q \in Procs :
        /\ Established(p)
        /\ sdRet[p] = "ctxErr"
        /\ clientCloses[p] = 1
        /\ Established(q)
        /\ ctxDone[q]
        /\ sdRet[q] = "client"
        /\ clientCloses[q] = 0

\* the entry's constructor failed and its done channel is closed
Failed(e) == entries[e].done /\ entries[e].val = Nil

\* C28: a constructor error arises only in the caller that ran the
\* constructor, and that caller goes on to return it with no tunnel, without
\* another turn of acquire's loop; the failed entry is out of the map, marked
\* removed, before its done channel is closed; a waiter that wakes on a failed
\* entry gets no error and no reference: it goes back to the top of acquire
\* with the pool unchanged.
C28_CtorFailure ==
    /\ [][\A p \in Procs : (err'[p] = "ctorErr" /\ err[p] # "ctorErr") =>
             (pc[p] = "ctor" /\ pc'[p] = "post_ctor")]_vars
    /\ [](\A p \in Procs : err[p] = "ctorErr" =>
             /\ pc[p] \in {"post_ctor", "del_lock", "del_body", "close_done",
                           "acq_return", "acq_ret"}
             /\ value[p] = Nil
             /\ pc[p] \in {"close_done", "acq_return"} =>
                    (entries[ent[p]].removed /\ m[key[p]] # ent[p]))
    /\ [](\A e \in Allocated : Failed(e) =>
             (entries[e].removed /\ entries[e].refCount = 0 /\ m[entries[e].key] # e))
    /\ [][\A q \in Procs : (pc[q] = "wait_body" /\ Failed(ent[q]) /\ pc'[q] # pc[q]) =>
             /\ pc'[q] = "acq_lock"
             /\ err'[q] = err[q]
             /\ err[q] = "nil"
             /\ value'[q] = Nil
             /\ entries' = entries
             /\ m' = m]_vars

\* the constructor of the first entry has returned its error; the other
\* caller of the batch is now running the constructor of a second entry
C28_Witness ==
    \E p, q \in Procs :
        /\ p # q
        /\ batch # "broken"
        /\ pc[p] = "acq_ret"
        /\ err[p] = "ctorErr"
        /\ Failed(1)
        /\ pc[q] = "ctor"
        /\ ent[q] = 2
        /\ m[key[q]] = 2
        /\ err[q] = "nil"

\* entry e is the one the map holds for its key
InMap(e) == m[entries[e].key] = e

\* the constructor of e has failed and stands between `e.removed = true`
\* (line 75) and the end of `delete(p.m, key)` (line 77)
CtorDeleting(e) == \E p \in Procs : pc[p] \in {"del_lock", "del_body"} /\ ent[p] = e

RefCountChanged(e) == entries'[e].refCount # entries[e].refCount

\* goroutine p takes the step
Acts(p) == pc'[p] # pc[p]

LockedPositions == {"acq_lookup", "del_body", "wait_body", "rel_body", "fgt_body"}

\* C31: a goroutine that runs the constructor, is suspended in wait or calls
\* client.Close() does not hold the pool mutex; the mutex is held exactly in
\* the sections that look up the map, change refCount, or insert or delete
\* an entry.
C31_MutexOnlyForBookkeeping ==
    \A p \in Procs :
        /\ pc[p] \in {"ctor", "post_ctor", "wait", "wait_lock", "rel_close", "fgt_close"}
              => mu # p
        /\ mu = p <=> pc[p] \in LockedPositions

\* one goroutine runs the constructor and another calls Close on a client
\* it released last, while the mutex is free
C31_Witness ==
    \E p, q \in Procs :
        /\ pc[p] = "ctor"
        /\ pc[q] = "rel_close"
        /\ last[q]
        /\ mu = Nil

\* the goroutines between the return of ctor and close(e.done) of entry e
Recording(e) ==
    {p \in Procs : ent[p] = e /\ pc[p] \in {"post_ctor", "del_lock", "del_body", "close_done"}}

\* C32: an entry's done channel is closed by its one constructor, once, and
\* only after the result is recorded: val and refCount 1, or removed and out
\* of the map; it is not reopened; and once ctor has returned, the channel
\* is closed in the end and every goroutine suspended on the entry leaves
\* its wait.
C32_DoneOnce ==
    /\ [](\A e \in Allocated :
             /\ Cardinality({p \in Procs : ent[p] = e /\ pc[p] = "ctor"} \cup Recording(e)) <= 1
             /\ entries[e].done => Recording(e) = {})
    /\ [][\A e \in Ents : entries'[e].done # entries[e].done =>
             /\ entries'[e].done
             /\ \E p \in Procs : pc[p] = "close_done" /\ ent[p] = e /\ pc'[p] = "acq_return"
             /\ IF entries[e].val # Nil
                   THEN /\ entries[e].refCount = 1
                        /\ ~entries[e].removed
                        /\ InMap(e)
                   ELSE /\ entries[e].refCount = 0
                        /\ entries[e].removed
                        /\ ~InMap(e)]_vars
    /\ \A e \in Ents : (Recording(e) # {}) ~> entries[e].done
    /\ \A q \in Procs : \A e \in Ents :
           (pc[q] = "wait" /\ ent[q] = e /\ Recording(e) # {}) ~> (pc[q] # "wait")

\* the constructor failed, done is closed, and a goroutine that was
\* suspended on the entry has woken and is about to take the lock
C32_Witness ==
    \E q \in Procs :
        /\ pc[q] = "wait_lock"
        /\ Failed(ent[q])
        /\ entries[ent[q]].removed

\* goroutine q is in a section that reads or writes fields of entry e: the
\* body of wait for e, or the body of tryRelease / tryForget whose lookup
\* `p.m[value.key]` gives e, where `e.val != value` reads e.val
Accesses(q, e) ==
    \/ pc[q] = "wait_body" /\ ent[q] = e
    \/ pc[q] \in {"rel_body", "fgt_body"} /\ m[TunnelKey(value[q])] = e

\* C33: while the constructor of an entry stands between the return of ctor
\* and close(e.done), where it writes val, refCount and removed without the
\* lock, no other goroutine is in a section that reads or writes fields of
\* that entry.
C33_ExclusiveRecording ==
    \A e \in Allocated :
        \A p \in Recording(e) :
            \A q \in Procs \ {p} : ~Accesses(q, e)

\* C34 as stated: critUsersEqZero, critNotClosed and critInCache never fire.
C34_NoCrit == crits \cap {"critUsersEqZero", "critNotClosed", "critInCache"} = {}

\* C35: a goroutine whose DialContext returned a connection that it has not
\* closed finds the tunnel's client never closed and the tunnel not marked
\* closed, with itself counted in users; and a tunnel that getSshTunnel has
\* returned is not marked closed.
C35_OpenConnClientOpen ==
    \A p \in Procs :
        /\ tpc[p] = "conn" =>
              /\ tuns[ttun[p]].closes = 0
              /\ tuns[ttun[p]].users >= Cardinality({q \in Procs : tpc[q] = "conn"
                                                                    /\ ttun[q] = ttun[p]})
        /\ tpc[p] \in {"have", "conn"} =>
              /\ ttun[p] # Nil
              /\ ~tuns[ttun[p]].closed

\* a tunnel was closed under two callers of the shared result; a goroutine
\* has since got a connection over a second tunnel
C35_Witness ==
    \E p \in Procs :
        /\ tpc[p] = "conn"
        /\ ttun[p] = 2
        /\ tuns[1].closed
        /\ tuns[1].closes >= 1
        /\ tuns[2].closes = 0

\* the goroutines that hold a handle to the tunnel of entry e: acquire is
\* returning it or has returned it to them, and their release or forget has
\* not yet run its critical section
Handles(e) ==
    {p \in Procs :
        \/ pc[p] = "acq_return" /\ ent[p] = e /\ entries[e].val = e
        \/ pc[p] \in {"acq_ret", "rel_lock", "rel_body", "fgt_lock", "fgt_body"}
              /\ value[p] = e}

\* C36: for every entry that is in the map with its done channel closed,
\* refCount is the number of goroutines holding a handle to its tunnel.
C36_RefCountIsHandles ==
    \A e \in Allocated :
        (InMap(e) /\ entries[e].done) => entries[e].refCount = Cardinality(Handles(e))

\* two goroutines hold the tunnel of the entry in the map, one of them about
\* to release it
C36_Witness ==
    \E p, q \in Procs :
        /\ p # q
        /\ pc[p] = "acq_ret"
        /\ pc[q] = "rel_lock"
        /\ value[p] = value[q]
        /\ value[p] # Nil
        /\ InMap(value[p])
        /\ entries[value[p]].refCount = 2

\* goroutine p's DialContext has returned an error and p has not gone on yet
FailedDial(p) == pc[p] = "dial_ret" /\ result[p] # <<>>

\* the goroutines holding a handle to tunnel e: those of Handles and those
\* holding a tunnelConn over it
Holders(e) == Handles(e) \cup {p \in Procs : pc[p] = "conn" /\ value[p] = e}

Discarded == took # 0 /\ took >= config.timeout + config.lag

\* C38: a timeout discarded by the lag filter is handled like an acknowledged
\* probe: the loop goes on to its head with hadTimeout false, the ticker reset
\* and no Close, and the head sets serverAliveCounter to ServerAliveCountMax,
\* so the misses counted so far are not continued by those counted later.
C38_DiscardedResets ==
    /\ [][(loop \in {"probe", "sent"} /\ took' # took /\ took' >= config.timeout + config.lag) =>
             /\ loop' = "top"
             /\ ~hadTimeout'
             /\ fresh'
             /\ misses' = 0
             /\ loopCloses' = loopCloses
             /\ serverAliveCounter' = serverAliveCounter]_vars
    /\ []((Discarded /\ loop = "top") => ~hadTimeout /\ misses = 0)
    /\ []((Discarded /\ loop = "select") =>
             serverAliveCounter = config.countMax /\ ~hadTimeout /\ misses = 0)

\* a miss was counted, which left serverAliveCounter below ServerAliveCountMax,
\* and the timeout of the next probe has been discarded: the loop is at its
\* head, about to reset the counter
C38_Witness ==
    /\ Discarded
    /\ loop = "top"
    /\ serverAliveCounter < config.countMax
    /\ ~hadTimeout
    /\ misses = 0
    /\ loopCloses = 0

\* the loop runs with ServerAliveLagMax = 0
NoLag == loop # "off" /\ config.lag = 0

\* C39: with ServerAliveLagMax = 0 every timeout of a probe is discarded: the
\* loop goes on without counting a miss, and it closes the client only when
\* the client has terminated or when a probe returned an error, never at the
\* firing of a probe's timer, however many probes stay unanswered.
C39_NoLagNoDeath ==
    /\ [](NoLag => ~hadTimeout /\ misses = 0)
    /\ [][(NoLag /\ loop \in {"probe", "sent"} /\ took' # took) =>
             /\ took' >= config.timeout
             /\ loop' = "top"
             /\ loopCloses' = loopCloses]_vars
    /\ [][(NoLag /\ loopCloses' # loopCloses) =>
             /\ took' = took \/ loop = "select"
             /\ \/ loop = "select" /\ waitDone
                \/ flight = "ready" /\ flightErr \in {"EOF", "sendErr"}]_vars

\* with ServerAliveLagMax = 0 and ServerAliveCountMax = 0 the timer of a probe
\* has fired, and the loop waits for the next tick with the client open and
\* the request still unanswered
C39_Witness ==
    /\ NoLag
    /\ config.countMax = 0
    /\ loop = "select"
    /\ took # 0
    /\ flight = "busy"
    /\ ~acked
    /\ ~waitDone
    /\ loopCloses = 0

\* C40: when the result taken from resp, by the main select of
\* sendKeepAliveRequest or by the pre-check at the start of a tick, is an error
\* other than io.EOF, which is never the keep-alive timeout, keepAliveLoop
\* closes the client once and returns in that same step, whatever
\* serverAliveCounter is; the error is not a miss, and the loop that returned
\* does nothing more.
C40_ErrorDead ==
    /\ [][(RespTaken /\ flightErr = "sendErr") =>
             /\ loop \in {"select", "probe", "sent"}
             /\ loop' = "done"
             /\ loopCloses' = loopCloses + 1
             /\ serverAliveCounter' = serverAliveCounter
             /\ ~hadTimeout'
             /\ misses' = 0]_vars
    /\ [][loop = "done" =>
             /\ loop' = "done"
             /\ loopCloses' = loopCloses
             /\ serverAliveCounter' = serverAliveCounter]_vars

\* a probe timed out and was counted, with misses to spare; the error its
\* request returned late was taken at a later tick, and the loop has closed
\* the client and returned with the counter above 0
C40_Witness ==
    /\ loop = "done"
    /\ loopCloses = 1
    /\ flight = "idle"
    /\ flightErr = "sendErr"
    /\ took = 0
    /\ serverAliveCounter >= 1
    /\ serverAliveCounter < config.countMax
    /\ ~waitDone
    /\ ~acked

====
